---- MODULE Spec2Model ----
(***************************************************************************)
(* Model of the micro-instruction table builder and the sort/group/emit    *)
(* engine of src/opcodes/opcodes.cpp.                                      *)
(*                                                                         *)
(* C strings and std::string values are sequences of character codes, so   *)
(* that strcmp and std::string::compare are computed bytewise.             *)
(***************************************************************************)
EXTENDS Integers, Sequences, FiniteSets, TLC

VARIABLES
    g_mi,        \* the pending MicroInstruction (opcodes.cpp:210)
    g_actions,   \* the Store, a vector of MicroInstruction (opcodes.cpp:211)
    pc,          \* position in main: "build", "sort", "emit", "done"
    index,       \* main's loop index, 0-based as in the code
    out,         \* the lines printed so far
    unsorted,    \* history: the Store as it was when std::sort was called
    def_of,      \* history: def_of[i] = opcode definition that stored g_actions[i]
    cur_def,     \* history: number of the opcode definition in progress
    acted,       \* history: an action-builder call was made in this definition
    dropped,     \* history: the definition ended last had an operation and no action
    last_composite, \* history: the last composite primitive called, and the state it was called in
    last_call    \* history: the last builder call made one at a time, and the state it was made in

vars ==
    <<g_mi, g_actions, pc, index, out, unsorted, def_of, cur_def, acted, dropped,
      last_composite, last_call>>

----------------------------------------------------------------------------
(* Bounds of the model *)

MaxStore == 2        \* records in the Store during the modelled build
MaxCycle == 2        \* bus transactions per opcode definition in the build
MaxEmit == 3         \* records in a Store handed to sort and emission
MaxCompositeCycle == 2  \* pending cycle at which a composite may still be called
MaxCalls == 2        \* builder calls made one at a time from a drawn state
MaxDefCalls == 8     \* builder calls in a table of opcode definitions
MaxFollow == 1       \* calls made after an action-builder call under test
MaxBit == 2          \* highest bit number passed to part

----------------------------------------------------------------------------
(* Vocabulary: the string constants of the source, as character codes *)

OP_NONE == <<78, 79, 78, 69>>
OP_BBR == <<66, 66, 82>>
OP_CLC == <<67, 76, 67>>
OP_CLD == <<67, 76, 68>>
OP_SEC == <<83, 69, 67>>

OP_BBS == <<66, 66, 83>>
OP_DEY == <<68, 69, 89>>
OP_RMB == <<82, 77, 66>>
OP_SMB == <<83, 77, 66>>

AM_NONE == <<65, 77, 95, 78, 79, 78, 69>>
IMP_i == <<73, 77, 80, 95, 105>>
STK_s == <<83, 84, 75, 95, 115>>
ZPG_zp == <<90, 80, 71, 95, 122, 112>>

A == <<96, 65>>
Y == <<96, 89>>

PC == <<96, 80, 67>>
SP == <<96, 83, 80>>
EPC == <<96, 69, 80, 67>>
D == <<96, 68>>
C == <<96, 67>>
RQW == <<96, 82, 81, 87>>
WQW == <<96, 87, 81, 87>>
ADDR == <<96, 65, 68, 68, 82>>

MODE_NONE == <<77, 79, 68, 69, 95, 78, 79, 78, 69>>
MODE_6502 == <<77, 79, 68, 69, 95, 54, 53, 48, 50>>
MODE_65832 == <<77, 79, 68, 69, 95, 54, 53, 56, 51, 50>>

\* string literals used by the action builder
S_ASSIGN == <<32, 60, 61, 32>>                               \* " <= "
S_SEMI == <<59>>                                             \* ";"
S_SPACE == <<32>>                                            \* " "
S_COMMA == <<44>>                                            \* ","
S_CLOSE == <<41, 59>>                                        \* ");"
S_READ == <<96, 82, 69, 65, 68, 95, 66, 89, 84, 69, 40>>     \* "`READ_BYTE("
S_WRITE == <<96, 87, 82, 73, 84, 69, 95, 66, 89, 84, 69, 40>> \* "`WRITE_BYTE("
S_TMP_SP == <<116, 109, 112, 95, 83, 80>>                    \* "tmp_SP"
S_PUSH_PRE == <<116, 109, 112, 95, 83, 80, 32, 61, 32, 83, 80, 32, 45, 32, 49, 59>> \* "tmp_SP = SP - 1;"
S_PUSH_POST == <<32, 83, 80, 32, 60, 61, 32, 116, 109, 112, 95, 83, 80, 59>>        \* " SP <= tmp_SP;"
S_POP_POST == <<32, 83, 80, 32, 60, 61, 32, 83, 80, 32, 43, 32, 49, 59>>            \* " SP <= SP + 1;"
S_LOAD_POST == <<32, 69, 80, 67, 32, 60, 61, 32, 69, 80, 67, 32, 43, 32, 49, 59>>   \* " EPC <= EPC + 1;"
S_LBRACKET == <<91>>                                         \* "["
S_COLON == <<58>>                                            \* ":"
S_RBRACKET == <<93>>                                         \* "]"
S_LBRACE == <<123>>                                          \* "{"
S_RBRACE == <<125>>                                          \* "}"
S_NEG == <<32, 60, 61, 32, 48, 32, 45, 32>>                  \* " <= 0 - "
S_INV == <<32, 60, 61, 32, 126>>                             \* " <= ~"
S_PLUS == <<43>>                                             \* "+"
S_MINUS == <<45>>                                            \* "-"
S_EMPTY == <<>>                                              \* ""

\* uint8_t arithmetic
U8(n) == n % 256

\* sprintf("%u") / sprintf("%hu"): the decimal digits of n
RECURSIVE Decimal(_)
Decimal(n) == IF n < 10 THEN <<48 + n>> ELSE Decimal(n \div 10) \o <<48 + (n % 10)>>

----------------------------------------------------------------------------
(* MicroInstruction and its ordering *)

\* the default constructor
NewMicroInstruction ==
    [cpu_mode |-> MODE_NONE, opcode |-> 0, operation |-> OP_NONE,
     address_mode |-> AM_NONE, which |-> 0, cycle |-> 0, action |-> S_EMPTY]

\* sign of the bytewise comparison of two character sequences
RECURSIVE strcmp(_, _)
strcmp(a, b) ==
    IF a = <<>> /\ b = <<>> THEN 0
    ELSE IF a = <<>> THEN -1
    ELSE IF b = <<>> THEN 1
    ELSE IF Head(a) < Head(b) THEN -1
    ELSE IF Head(a) > Head(b) THEN 1
    ELSE strcmp(Tail(a), Tail(b))

\* mutant: the operation is compared before the action text
compare_mi_objects_operation_first(a, b) ==
    IF a.cycle < b.cycle THEN -1
    ELSE IF a.cycle > b.cycle THEN 1
    ELSE IF strcmp(a.address_mode, b.address_mode) # 0 THEN strcmp(a.address_mode, b.address_mode)
    ELSE IF strcmp(a.operation, b.operation) # 0 THEN strcmp(a.operation, b.operation)
    ELSE IF strcmp(a.action, b.action) # 0 THEN strcmp(a.action, b.action)
    ELSE IF strcmp(a.cpu_mode, b.cpu_mode) # 0 THEN strcmp(a.cpu_mode, b.cpu_mode)
    ELSE IF a.which < b.which THEN -1
    ELSE IF a.which > b.which THEN 1
    ELSE IF a.opcode < b.opcode THEN -1
    ELSE IF a.opcode > b.opcode THEN 1
    ELSE 0

\* mutant: the cpu_mode is compared before the operation
compare_mi_objects_cpu_mode_first(a, b) ==
    IF a.cycle < b.cycle THEN -1
    ELSE IF a.cycle > b.cycle THEN 1
    ELSE IF strcmp(a.address_mode, b.address_mode) # 0 THEN strcmp(a.address_mode, b.address_mode)
    ELSE IF strcmp(a.action, b.action) # 0 THEN strcmp(a.action, b.action)
    ELSE IF strcmp(a.cpu_mode, b.cpu_mode) # 0 THEN strcmp(a.cpu_mode, b.cpu_mode)
    ELSE IF strcmp(a.operation, b.operation) # 0 THEN strcmp(a.operation, b.operation)
    ELSE IF a.which < b.which THEN -1
    ELSE IF a.which > b.which THEN 1
    ELSE IF a.opcode < b.opcode THEN -1
    ELSE IF a.opcode > b.opcode THEN 1
    ELSE 0

\* mutant: the opcode is the most significant field of the sort key
compare_mi_objects_opcode_first(a, b) ==
    IF a.opcode < b.opcode THEN -1
    ELSE IF a.opcode > b.opcode THEN 1
    ELSE IF a.cycle < b.cycle THEN -1
    ELSE IF a.cycle > b.cycle THEN 1
    ELSE IF strcmp(a.address_mode, b.address_mode) # 0 THEN strcmp(a.address_mode, b.address_mode)
    ELSE IF strcmp(a.action, b.action) # 0 THEN strcmp(a.action, b.action)
    ELSE IF strcmp(a.operation, b.operation) # 0 THEN strcmp(a.operation, b.operation)
    ELSE IF strcmp(a.cpu_mode, b.cpu_mode) # 0 THEN strcmp(a.cpu_mode, b.cpu_mode)
    ELSE IF a.which < b.which THEN -1
    ELSE IF a.which > b.which THEN 1
    ELSE 0

\* mutant: the opcode tie-break is missing
compare_mi_objects_no_opcode(a, b) ==
    IF a.cycle < b.cycle THEN -1
    ELSE IF a.cycle > b.cycle THEN 1
    ELSE IF strcmp(a.address_mode, b.address_mode) # 0 THEN strcmp(a.address_mode, b.address_mode)
    ELSE IF strcmp(a.action, b.action) # 0 THEN strcmp(a.action, b.action)
    ELSE IF strcmp(a.operation, b.operation) # 0 THEN strcmp(a.operation, b.operation)
    ELSE IF strcmp(a.cpu_mode, b.cpu_mode) # 0 THEN strcmp(a.cpu_mode, b.cpu_mode)
    ELSE IF a.which < b.which THEN -1
    ELSE IF a.which > b.which THEN 1
    ELSE 0

\* mutant: the cpu_mode is compared before the action text
compare_mi_objects_cpu_mode_before_action(a, b) ==
    IF a.cycle < b.cycle THEN -1
    ELSE IF a.cycle > b.cycle THEN 1
    ELSE IF strcmp(a.address_mode, b.address_mode) # 0 THEN strcmp(a.address_mode, b.address_mode)
    ELSE IF strcmp(a.cpu_mode, b.cpu_mode) # 0 THEN strcmp(a.cpu_mode, b.cpu_mode)
    ELSE IF strcmp(a.action, b.action) # 0 THEN strcmp(a.action, b.action)
    ELSE IF strcmp(a.operation, b.operation) # 0 THEN strcmp(a.operation, b.operation)
    ELSE IF a.which < b.which THEN -1
    ELSE IF a.which > b.which THEN 1
    ELSE IF a.opcode < b.opcode THEN -1
    ELSE IF a.opcode > b.opcode THEN 1
    ELSE 0

\* the sort key, most significant field first; only the sign of the result is used
compare_mi_objects(a, b) ==
    IF a.cycle < b.cycle THEN -1
    ELSE IF a.cycle > b.cycle THEN 1
    ELSE IF strcmp(a.address_mode, b.address_mode) # 0 THEN strcmp(a.address_mode, b.address_mode)
    ELSE IF strcmp(a.action, b.action) # 0 THEN strcmp(a.action, b.action)
    ELSE IF strcmp(a.operation, b.operation) # 0 THEN strcmp(a.operation, b.operation)
    ELSE IF strcmp(a.cpu_mode, b.cpu_mode) # 0 THEN strcmp(a.cpu_mode, b.cpu_mode)
    ELSE IF a.which < b.which THEN -1
    ELSE IF a.which > b.which THEN 1
    ELSE IF a.opcode < b.opcode THEN -1
    ELSE IF a.opcode > b.opcode THEN 1
    ELSE 0

compare_mi(a, b) == compare_mi_objects(a, b) < 0

----------------------------------------------------------------------------
(* The builder: functions of the pending record and the Store.            *)
(* A builder state is a record [mi, acts].                                 *)

\* mutant: a record is stored whatever its operation
save_instruction_any_operation(s) ==
    [mi |-> [s.mi EXCEPT !.action = S_EMPTY],
     acts |-> IF s.mi.action # S_EMPTY THEN Append(s.acts, s.mi) ELSE s.acts]

\* mutant: a record is stored at the front of the Store
save_instruction_prepending(s) ==
    [mi |-> [s.mi EXCEPT !.action = S_EMPTY],
     acts |-> IF s.mi.operation # OP_NONE /\ s.mi.action # S_EMPTY
              THEN <<s.mi>> \o s.acts ELSE s.acts]

\* mutant: a pending record is stored even when its action is empty
save_instruction_empty_action(s) ==
    [mi |-> [s.mi EXCEPT !.action = S_EMPTY],
     acts |-> IF s.mi.operation # OP_NONE THEN Append(s.acts, s.mi) ELSE s.acts]

\* mutant: the pending action is stored and stays pending
save_instruction_keeping_action(s) ==
    [mi |-> s.mi,
     acts |-> IF s.mi.operation # OP_NONE /\ s.mi.action # S_EMPTY
              THEN Append(s.acts, s.mi) ELSE s.acts]

save_instruction(s) ==
    [mi |-> [s.mi EXCEPT !.action = S_EMPTY],
     acts |-> IF s.mi.operation # OP_NONE /\ s.mi.action # S_EMPTY
              THEN Append(s.acts, s.mi) ELSE s.acts]

\* mutant: a flush leaves the pending cycle as it is
flush_instruction_keeps_cycle(s) ==
    LET t == save_instruction(s) IN [t EXCEPT !.mi.operation = OP_NONE]

\* mutant: a flush stores the pending action whatever the pending operation
flush_instruction_any_operation(s) ==
    LET t == save_instruction_any_operation(s)
    IN [t EXCEPT !.mi.operation = OP_NONE, !.mi.cycle = 0]

flush_instruction(s) ==
    LET t == save_instruction(s)
    IN [t EXCEPT !.mi.operation = OP_NONE, !.mi.cycle = 0]

\* mutant: the last flush drops what is pending
flush_mode_discarding(s) ==
    [s EXCEPT !.mi.action = S_EMPTY, !.mi.operation = OP_NONE, !.mi.cycle = 0]

flush_mode(s) == flush_instruction(s)

\* mutant: the pending cycle is advanced by two
flush_cycle_double(s) ==
    LET t == save_instruction(s) IN [t EXCEPT !.mi.cycle = U8(t.mi.cycle + 2)]

\* mutant: the pending cycle is not advanced
flush_cycle_stalled(s) == save_instruction(s)

\* mutant: the pending cycle counts down
flush_cycle_backwards(s) ==
    LET t == save_instruction(s) IN [t EXCEPT !.mi.cycle = U8(t.mi.cycle + 255)]

\* mutant: the pending cycle is advanced only when a record was stored
flush_cycle_when_stored(s) ==
    LET t == save_instruction(s)
    IN IF s.mi.operation # OP_NONE THEN [t EXCEPT !.mi.cycle = U8(t.mi.cycle + 1)] ELSE t

flush_cycle(s) ==
    LET t == save_instruction(s)
    IN [t EXCEPT !.mi.cycle = U8(t.mi.cycle + 1)]

set_mode(s, cpu_mode) == [flush_mode(s) EXCEPT !.mi.cpu_mode = cpu_mode]

\* mutant: a duplicate is detected: set_opcode of an opcode that has records
\* in the Store under the pending cpu_mode is refused
set_opcode_refusing_duplicate(s, opcode) ==
    IF \E i \in 1..Len(s.acts) :
          s.acts[i].cpu_mode = s.mi.cpu_mode /\ s.acts[i].opcode = opcode
    THEN s
    ELSE [flush_instruction(s) EXCEPT !.mi.opcode = opcode]

\* mutant: the new opcode is written before the flush
set_opcode_relabelling_first(s, opcode) == flush_instruction([s EXCEPT !.mi.opcode = opcode])

\* mutant: set_opcode also resets address_mode and which
set_opcode_resetting(s, opcode) ==
    [flush_instruction(s) EXCEPT !.mi.opcode = opcode, !.mi.address_mode = AM_NONE,
                                 !.mi.which = 0]

set_opcode(s, opcode) == [flush_instruction(s) EXCEPT !.mi.opcode = opcode]

\* mutant: set_operation captures the pending action under the operation of
\* before
set_operation_capturing(s, operation) ==
    [save_instruction(s) EXCEPT !.mi.operation = operation]

set_operation(s, operation) == [s EXCEPT !.mi.operation = operation]

set_address_mode(s, address_mode) == [s EXCEPT !.mi.address_mode = address_mode]

\* mutant: set_which saves the pending record before it writes the field
set_which_saving(s, which) == [save_instruction(s) EXCEPT !.mi.which = which]

set_which(s, which) == [s EXCEPT !.mi.which = which]

----------------------------------------------------------------------------
(* The action builder *)

\* "%s[%hu]"
bit_of(reg, bit_nbr) == reg \o S_LBRACKET \o Decimal(bit_nbr) \o S_RBRACKET

\* "%s[%hu:%hu]"; the range is printed as given, highest first
part(reg, highest, lowest) ==
    reg \o S_LBRACKET \o Decimal(highest) \o S_COLON \o Decimal(lowest) \o S_RBRACKET

\* static char val[2]
BitBufferSize == 2

\* the bytes sprintf(val, "%hu", b) writes: the digits of b and the
\* terminating 0
bit_bytes(b) == Decimal(b) \o <<0>>

\* "%hu" printed into a buffer of two bytes. For b >= 10 sprintf writes one
\* or two bytes behind the buffer; in the build these are alignment padding
\* behind val, so the text returned is the digits of b and nothing else
\* is changed.
bit(b) == Decimal(b)

combine2(a, b) == S_LBRACE \o a \o S_COMMA \o b \o S_RBRACE

combine3(a, b, c) == S_LBRACE \o a \o S_COMMA \o b \o S_COMMA \o c \o S_RBRACE

\* mutant: a register transfer advances the pending cycle as a bus transaction does
assign_n_advancing(s, reg, n) ==
    LET t == flush_cycle(s)
    IN [t EXCEPT !.mi.action = reg \o S_ASSIGN \o Decimal(n) \o S_SEMI]

\* assign(Register, uint32_t)
assign_n(s, reg, n) ==
    LET t == save_instruction(s)
    IN [t EXCEPT !.mi.action = reg \o S_ASSIGN \o Decimal(n) \o S_SEMI]

\* mutant: assign ends the opcode definition as a flush does
assign_flushing(s, reg, val) ==
    LET t == flush_instruction(s)
    IN [t EXCEPT !.mi.action = reg \o S_ASSIGN \o val \o S_SEMI]

\* assign(Register, const char*)
assign(s, reg, val) ==
    LET t == save_instruction(s)
    IN [t EXCEPT !.mi.action = reg \o S_ASSIGN \o val \o S_SEMI]

get_write_byte_action(address, val) == S_WRITE \o address \o S_COMMA \o val \o S_CLOSE

get_read_byte_action(address, dst) == S_READ \o address \o S_COMMA \o dst \o S_CLOSE

push_byte(s, val) ==
    LET t == save_instruction(s)
        action == S_PUSH_PRE \o S_SPACE \o get_write_byte_action(S_TMP_SP, val) \o S_PUSH_POST
    IN flush_cycle([t EXCEPT !.mi.action = action])

pop_byte(s, dst) ==
    LET t == save_instruction(s)
        action == get_read_byte_action(SP, dst) \o S_POP_POST
    IN flush_cycle([t EXCEPT !.mi.action = action])

load_byte(s, dst) ==
    LET t == save_instruction(s)
        action == get_read_byte_action(EPC, dst) \o S_LOAD_POST
    IN flush_cycle([t EXCEPT !.mi.action = action])

\* update(Register, const char*, uint32_t)
update_n(s, reg, oper, n) ==
    LET t == save_instruction(s)
    IN [t EXCEPT !.mi.action =
            reg \o S_ASSIGN \o reg \o S_SPACE \o oper \o S_SPACE \o Decimal(n) \o S_SEMI]

\* update(Register, const char*, const char*)
update(s, reg, oper, val) ==
    LET t == save_instruction(s)
    IN [t EXCEPT !.mi.action =
            reg \o S_ASSIGN \o reg \o S_SPACE \o oper \o S_SPACE \o val \o S_SEMI]

add(s, reg, n) == update_n(s, reg, S_PLUS, n)

inc(s, reg) == add(s, reg, 1)

sub(s, reg, n) == update_n(s, reg, S_MINUS, n)

dec(s, reg) == sub(s, reg, 1)

decrement(s, reg) == sub(s, reg, 1)

read_byte(s, address, dst) ==
    LET t == save_instruction(s)
        action == get_read_byte_action(address, dst)
    IN flush_cycle([t EXCEPT !.mi.action = action])

\* inc(address) leaves its text in the pending action, which is then overwritten
read_byte_with_inc(s, address, dst) ==
    LET t == save_instruction(s)
        action == get_read_byte_action(address, dst)
        u == inc(t, address)
    IN flush_cycle([u EXCEPT !.mi.action = action])

write_byte(s, address, src) ==
    LET t == save_instruction(s)
        action == get_write_byte_action(address, src)
    IN flush_cycle([t EXCEPT !.mi.action = action])

write_byte_with_inc(s, address, src) ==
    LET t == save_instruction(s)
        action == get_write_byte_action(address, src)
        u == inc(t, address)
    IN flush_cycle([u EXCEPT !.mi.action = action])

neg(s, reg) ==
    LET t == save_instruction(s)
    IN [t EXCEPT !.mi.action = reg \o S_NEG \o reg \o S_SEMI]

\* mutant: invert ends the cycle as a bus transaction does
invert_advancing(s, reg) ==
    LET t == save_instruction(s)
    IN flush_cycle([t EXCEPT !.mi.action = reg \o S_INV \o reg \o S_SEMI])

invert(s, reg) ==
    LET t == save_instruction(s)
    IN [t EXCEPT !.mi.action = reg \o S_INV \o reg \o S_SEMI]

\* mutant: copy stores its action at once
copy_capturing(s, src, dst) ==
    LET t == save_instruction(s)
    IN save_instruction([t EXCEPT !.mi.action = dst \o S_ASSIGN \o src \o S_SEMI])

copy(s, src, dst) ==
    LET t == save_instruction(s)
    IN [t EXCEPT !.mi.action = dst \o S_ASSIGN \o src \o S_SEMI]

set_flag(s, reg) == assign_n(s, reg, 1)

clear_flag(s, reg) == assign_n(s, reg, 0)

\* the shift helpers. Each of lsl_, lsr_, asl_ and asr_ has five versions in
\* the source, _byte, _half_word, _word, _double_word and _quad_word, that
\* differ only in the bit numbers: bits is 8, 16, 32, 64 or 128.
Widths == {8, 16, 32, 64, 128}

\* mutant: the register is rewritten before the carry is captured
lsl_rewriting_first(s, reg, bits) ==
    LET s1 == save_instruction(s)
        s2 == assign(s1, reg, combine2(part(reg, bits - 2, 0), bit(0)))
        s3 == assign(s2, C, bit_of(reg, bits - 1))
    IN <<s1, s2, s3>>[3]

lsl(s, reg, bits) ==
    LET s1 == save_instruction(s)
        s2 == assign(s1, C, bit_of(reg, bits - 1))
        s3 == assign(s2, reg, combine2(part(reg, bits - 2, 0), bit(0)))
    IN <<s1, s2, s3>>[3]

lsr(s, reg, bits) ==
    LET s1 == save_instruction(s)
        s2 == assign(s1, C, bit_of(reg, 0))
        s3 == assign(s2, reg, combine2(bit(0), part(reg, bits - 1, 1)))
    IN <<s1, s2, s3>>[3]

asl(s, reg, bits) ==
    LET s1 == save_instruction(s)
        s2 == assign(s1, C, bit_of(reg, bits - 1))
        s3 == assign(s2, reg, combine2(part(reg, bits - 2, 0), bit(0)))
    IN <<s1, s2, s3>>[3]

asr(s, reg, bits) ==
    LET s1 == save_instruction(s)
        s2 == assign(s1, C, bit_of(reg, 0))
        s3 == assign(s2, reg, combine2(bit(bits - 1), part(reg, bits - 1, 1)))
    IN <<s1, s2, s3>>[3]

\* the value each shift helper passes to bit(): lsl_, lsr_ and asl_ shift in
\* bit(0); asr_ passes the number of the sign bit, 7, 15, 31, 63 or 127
bit_argument(name, bits) == IF name = "asr" THEN bits - 1 ELSE 0

\* the composite primitives: byte-serial transfers of 2, 4, 8 and 16 bytes;
\* s1, s2, ... are the builder states after each call of the body, in order

\* mutant: the low byte is pushed first
push_half_word_low_first(s, val) ==
    LET s1 == save_instruction(s)
        s2 == assign(s1, part(WQW, 15, 8), part(val, 15, 8))
        s3 == push_byte(s2, part(val, 7, 0))
        s4 == push_byte(s3, part(WQW, 15, 8))
    IN <<s1, s2, s3, s4>>[4]

push_half_word(s, val) ==
    LET s1 == save_instruction(s)
        s2 == assign(s1, part(WQW, 7, 0), part(val, 7, 0))
        s3 == push_byte(s2, part(val, 15, 8))
        s4 == push_byte(s3, part(WQW, 7, 0))
    IN <<s1, s2, s3, s4>>[4]

push_word(s, val) ==
    LET s1 == save_instruction(s)
        s2 == assign(s1, part(WQW, 23, 0), part(val, 23, 0))
        s3 == push_byte(s2, part(val, 31, 24))
        s4 == push_byte(s3, part(WQW, 23, 16))
        s5 == push_byte(s4, part(WQW, 15, 8))
        s6 == push_byte(s5, part(WQW, 7, 0))
    IN <<s1, s2, s3, s4, s5, s6>>[6]

push_double_word(s, val) ==
    LET s1 == save_instruction(s)
        s2 == assign(s1, part(WQW, 55, 0), part(val, 55, 0))
        s3 == push_byte(s2, part(val, 63, 56))
        s4 == push_byte(s3, part(WQW, 55, 48))
        s5 == push_byte(s4, part(WQW, 47, 40))
        s6 == push_byte(s5, part(WQW, 39, 32))
        s7 == push_byte(s6, part(WQW, 31, 24))
        s8 == push_byte(s7, part(WQW, 23, 16))
        s9 == push_byte(s8, part(WQW, 15, 8))
        s10 == push_byte(s9, part(WQW, 7, 0))
    IN <<s1, s2, s3, s4, s5, s6, s7, s8, s9, s10>>[10]

push_quad_word(s, val) ==
    LET s1 == save_instruction(s)
        s2 == assign(s1, part(WQW, 119, 0), part(val, 119, 0))
        s3 == push_byte(s2, part(val, 127, 120))
        s4 == push_byte(s3, part(WQW, 119, 112))
        s5 == push_byte(s4, part(WQW, 111, 104))
        s6 == push_byte(s5, part(WQW, 103, 96))
        s7 == push_byte(s6, part(WQW, 95, 88))
        s8 == push_byte(s7, part(WQW, 87, 80))
        s9 == push_byte(s8, part(WQW, 79, 72))
        s10 == push_byte(s9, part(WQW, 71, 64))
        s11 == push_byte(s10, part(WQW, 63, 56))
        s12 == push_byte(s11, part(WQW, 55, 48))
        s13 == push_byte(s12, part(WQW, 47, 40))
        s14 == push_byte(s13, part(WQW, 39, 32))
        s15 == push_byte(s14, part(WQW, 31, 24))
        s16 == push_byte(s15, part(WQW, 23, 16))
        s17 == push_byte(s16, part(WQW, 15, 8))
        s18 == push_byte(s17, part(WQW, 7, 0))
    IN <<s1, s2, s3, s4, s5, s6, s7, s8, s9, s10, s11, s12, s13, s14, s15, s16, s17, s18>>[18]

pop_half_word(s, dst) ==
    LET s1 == save_instruction(s)
        s2 == pop_byte(s1, part(RQW, 7, 0))
        s3 == assign(s2, part(dst, 7, 0), part(RQW, 7, 0))
        s4 == pop_byte(s3, part(dst, 15, 8))
    IN <<s1, s2, s3, s4>>[4]

pop_word(s, dst) ==
    LET s1 == save_instruction(s)
        s2 == pop_byte(s1, part(RQW, 7, 0))
        s3 == pop_byte(s2, part(RQW, 15, 8))
        s4 == pop_byte(s3, part(RQW, 23, 16))
        s5 == assign(s4, part(dst, 23, 0), part(RQW, 23, 0))
        s6 == pop_byte(s5, part(dst, 31, 24))
    IN <<s1, s2, s3, s4, s5, s6>>[6]

pop_double_word(s, dst) ==
    LET s1 == save_instruction(s)
        s2 == pop_byte(s1, part(RQW, 7, 0))
        s3 == pop_byte(s2, part(RQW, 15, 8))
        s4 == pop_byte(s3, part(RQW, 23, 16))
        s5 == pop_byte(s4, part(RQW, 31, 24))
        s6 == pop_byte(s5, part(RQW, 39, 32))
        s7 == pop_byte(s6, part(RQW, 47, 40))
        s8 == pop_byte(s7, part(RQW, 55, 48))
        s9 == assign(s8, part(dst, 55, 0), part(RQW, 55, 0))
        s10 == pop_byte(s9, part(dst, 63, 56))
    IN <<s1, s2, s3, s4, s5, s6, s7, s8, s9, s10>>[10]

pop_quad_word(s, dst) ==
    LET s1 == save_instruction(s)
        s2 == pop_byte(s1, part(RQW, 7, 0))
        s3 == pop_byte(s2, part(RQW, 15, 8))
        s4 == pop_byte(s3, part(RQW, 23, 16))
        s5 == pop_byte(s4, part(RQW, 31, 24))
        s6 == pop_byte(s5, part(RQW, 39, 32))
        s7 == pop_byte(s6, part(RQW, 47, 40))
        s8 == pop_byte(s7, part(RQW, 55, 48))
        s9 == pop_byte(s8, part(RQW, 63, 56))
        s10 == pop_byte(s9, part(RQW, 71, 64))
        s11 == pop_byte(s10, part(RQW, 79, 72))
        s12 == pop_byte(s11, part(RQW, 87, 80))
        s13 == pop_byte(s12, part(RQW, 95, 88))
        s14 == pop_byte(s13, part(RQW, 103, 96))
        s15 == pop_byte(s14, part(RQW, 111, 104))
        s16 == pop_byte(s15, part(RQW, 119, 112))
        s17 == assign(s16, part(dst, 119, 0), part(RQW, 119, 0))
        s18 == pop_byte(s17, part(dst, 127, 120))
    IN <<s1, s2, s3, s4, s5, s6, s7, s8, s9, s10, s11, s12, s13, s14, s15, s16, s17, s18>>[18]

load_half_word(s, dst) ==
    LET s1 == save_instruction(s)
        s2 == load_byte(s1, part(RQW, 7, 0))
        s3 == assign(s2, part(dst, 7, 0), part(RQW, 7, 0))
        s4 == load_byte(s3, part(dst, 15, 8))
    IN <<s1, s2, s3, s4>>[4]

load_word(s, dst) ==
    LET s1 == save_instruction(s)
        s2 == load_byte(s1, part(RQW, 7, 0))
        s3 == load_byte(s2, part(RQW, 15, 8))
        s4 == load_byte(s3, part(RQW, 23, 16))
        s5 == assign(s4, part(dst, 23, 0), part(RQW, 23, 0))
        s6 == load_byte(s5, part(dst, 31, 24))
    IN <<s1, s2, s3, s4, s5, s6>>[6]

load_double_word(s, dst) ==
    LET s1 == save_instruction(s)
        s2 == load_byte(s1, part(RQW, 7, 0))
        s3 == load_byte(s2, part(RQW, 15, 8))
        s4 == load_byte(s3, part(RQW, 23, 16))
        s5 == load_byte(s4, part(RQW, 31, 24))
        s6 == load_byte(s5, part(RQW, 39, 32))
        s7 == load_byte(s6, part(RQW, 47, 40))
        s8 == load_byte(s7, part(RQW, 55, 48))
        s9 == assign(s8, part(dst, 55, 0), part(RQW, 55, 0))
        s10 == load_byte(s9, part(dst, 63, 56))
    IN <<s1, s2, s3, s4, s5, s6, s7, s8, s9, s10>>[10]

load_quad_word(s, dst) ==
    LET s1 == save_instruction(s)
        s2 == load_byte(s1, part(RQW, 7, 0))
        s3 == load_byte(s2, part(RQW, 15, 8))
        s4 == load_byte(s3, part(RQW, 23, 16))
        s5 == load_byte(s4, part(RQW, 31, 24))
        s6 == load_byte(s5, part(RQW, 39, 32))
        s7 == load_byte(s6, part(RQW, 47, 40))
        s8 == load_byte(s7, part(RQW, 55, 48))
        s9 == load_byte(s8, part(RQW, 63, 56))
        s10 == load_byte(s9, part(RQW, 71, 64))
        s11 == load_byte(s10, part(RQW, 79, 72))
        s12 == load_byte(s11, part(RQW, 87, 80))
        s13 == load_byte(s12, part(RQW, 95, 88))
        s14 == load_byte(s13, part(RQW, 103, 96))
        s15 == load_byte(s14, part(RQW, 111, 104))
        s16 == load_byte(s15, part(RQW, 119, 112))
        s17 == assign(s16, part(dst, 119, 0), part(RQW, 119, 0))
        s18 == load_byte(s17, part(dst, 127, 120))
    IN <<s1, s2, s3, s4, s5, s6, s7, s8, s9, s10, s11, s12, s13, s14, s15, s16, s17, s18>>[18]

read_half_word(s, address, dst) ==
    LET s1 == save_instruction(s)
        s2 == read_byte_with_inc(s1, address, part(RQW, 7, 0))
        s3 == assign(s2, part(dst, 7, 0), part(RQW, 7, 0))
        s4 == read_byte(s3, address, part(dst, 15, 8))
    IN <<s1, s2, s3, s4>>[4]

read_word(s, address, dst) ==
    LET s1 == save_instruction(s)
        s2 == read_byte_with_inc(s1, address, part(RQW, 7, 0))
        s3 == read_byte_with_inc(s2, address, part(RQW, 15, 8))
        s4 == read_byte_with_inc(s3, address, part(RQW, 23, 16))
        s5 == assign(s4, part(dst, 23, 0), part(RQW, 23, 0))
        s6 == read_byte(s5, address, part(dst, 31, 24))
    IN <<s1, s2, s3, s4, s5, s6>>[6]

read_double_word(s, address, dst) ==
    LET s1 == save_instruction(s)
        s2 == read_byte_with_inc(s1, address, part(RQW, 7, 0))
        s3 == read_byte_with_inc(s2, address, part(RQW, 15, 8))
        s4 == read_byte_with_inc(s3, address, part(RQW, 23, 16))
        s5 == read_byte_with_inc(s4, address, part(RQW, 31, 24))
        s6 == read_byte_with_inc(s5, address, part(RQW, 39, 32))
        s7 == read_byte_with_inc(s6, address, part(RQW, 47, 40))
        s8 == read_byte_with_inc(s7, address, part(RQW, 55, 48))
        s9 == assign(s8, part(dst, 55, 0), part(RQW, 55, 0))
        s10 == read_byte(s9, address, part(dst, 63, 56))
    IN <<s1, s2, s3, s4, s5, s6, s7, s8, s9, s10>>[10]

read_quad_word(s, address, dst) ==
    LET s1 == save_instruction(s)
        s2 == read_byte_with_inc(s1, address, part(RQW, 7, 0))
        s3 == read_byte_with_inc(s2, address, part(RQW, 15, 8))
        s4 == read_byte_with_inc(s3, address, part(RQW, 23, 16))
        s5 == read_byte_with_inc(s4, address, part(RQW, 31, 24))
        s6 == read_byte_with_inc(s5, address, part(RQW, 39, 32))
        s7 == read_byte_with_inc(s6, address, part(RQW, 47, 40))
        s8 == read_byte_with_inc(s7, address, part(RQW, 55, 48))
        s9 == read_byte_with_inc(s8, address, part(RQW, 63, 56))
        s10 == read_byte_with_inc(s9, address, part(RQW, 71, 64))
        s11 == read_byte_with_inc(s10, address, part(RQW, 79, 72))
        s12 == read_byte_with_inc(s11, address, part(RQW, 87, 80))
        s13 == read_byte_with_inc(s12, address, part(RQW, 95, 88))
        s14 == read_byte_with_inc(s13, address, part(RQW, 103, 96))
        s15 == read_byte_with_inc(s14, address, part(RQW, 111, 104))
        s16 == read_byte_with_inc(s15, address, part(RQW, 119, 112))
        s17 == assign(s16, part(dst, 119, 0), part(RQW, 119, 0))
        s18 == read_byte(s17, address, part(dst, 127, 120))
    IN <<s1, s2, s3, s4, s5, s6, s7, s8, s9, s10, s11, s12, s13, s14, s15, s16, s17, s18>>[18]

write_half_word(s, address, src) ==
    LET s1 == save_instruction(s)
        s2 == assign(s1, part(RQW, 15, 8), part(src, 15, 8))
        s3 == write_byte_with_inc(s2, address, part(src, 7, 0))
        s4 == write_byte(s3, address, part(RQW, 15, 8))
    IN <<s1, s2, s3, s4>>[4]

write_word(s, address, src) ==
    LET s1 == save_instruction(s)
        s2 == assign(s1, part(RQW, 31, 8), part(RQW, 31, 8))
        s3 == write_byte_with_inc(s2, address, part(src, 7, 0))
        s4 == write_byte_with_inc(s3, address, part(RQW, 15, 8))
        s5 == write_byte_with_inc(s4, address, part(RQW, 23, 16))
        s6 == write_byte(s5, address, part(RQW, 31, 24))
    IN <<s1, s2, s3, s4, s5, s6>>[6]

write_double_word(s, address, src) ==
    LET s1 == save_instruction(s)
        s2 == assign(s1, part(src, 63, 8), part(RQW, 63, 8))
        s3 == write_byte_with_inc(s2, address, part(src, 7, 0))
        s4 == write_byte_with_inc(s3, address, part(RQW, 15, 8))
        s5 == write_byte_with_inc(s4, address, part(RQW, 23, 16))
        s6 == write_byte_with_inc(s5, address, part(RQW, 31, 24))
        s7 == write_byte_with_inc(s6, address, part(RQW, 39, 32))
        s8 == write_byte_with_inc(s7, address, part(RQW, 47, 40))
        s9 == write_byte_with_inc(s8, address, part(RQW, 55, 48))
        s10 == write_byte(s9, address, part(RQW, 63, 56))
    IN <<s1, s2, s3, s4, s5, s6, s7, s8, s9, s10>>[10]

write_quad_word(s, address, src) ==
    LET s1 == save_instruction(s)
        s2 == assign(s1, part(src, 127, 8), part(RQW, 127, 8))
        s3 == write_byte_with_inc(s2, address, part(src, 7, 0))
        s4 == write_byte_with_inc(s3, address, part(RQW, 15, 8))
        s5 == write_byte_with_inc(s4, address, part(RQW, 23, 16))
        s6 == write_byte_with_inc(s5, address, part(RQW, 31, 24))
        s7 == write_byte_with_inc(s6, address, part(RQW, 39, 32))
        s8 == write_byte_with_inc(s7, address, part(RQW, 47, 40))
        s9 == write_byte_with_inc(s8, address, part(RQW, 55, 48))
        s10 == write_byte_with_inc(s9, address, part(RQW, 63, 56))
        s11 == write_byte_with_inc(s10, address, part(RQW, 71, 64))
        s12 == write_byte_with_inc(s11, address, part(RQW, 79, 72))
        s13 == write_byte_with_inc(s12, address, part(RQW, 87, 80))
        s14 == write_byte_with_inc(s13, address, part(RQW, 95, 88))
        s15 == write_byte_with_inc(s14, address, part(RQW, 103, 96))
        s16 == write_byte_with_inc(s15, address, part(RQW, 111, 104))
        s17 == write_byte_with_inc(s16, address, part(RQW, 119, 112))
        s18 == write_byte(s17, address, part(RQW, 127, 120))
    IN <<s1, s2, s3, s4, s5, s6, s7, s8, s9, s10, s11, s12, s13, s14, s15, s16, s17, s18>>[18]

----------------------------------------------------------------------------
(* Sorting and emission *)

\* std::sort(g_actions.begin(), g_actions.end(), compare_mi): the records in
\* ascending order of compare_mi. Records that compare equivalent keep their
\* relative order here; under compare_mi they are equal records.
RECURSIVE insert_sorted(_, _)
insert_sorted(mi, sorted) ==
    IF sorted = <<>> THEN <<mi>>
    ELSE IF compare_mi(mi, Head(sorted)) THEN <<mi>> \o sorted
    ELSE <<Head(sorted)>> \o insert_sorted(mi, Tail(sorted))

\* mutant: the Store is emitted in the order it was built
sort_omitted(acts) == acts

RECURSIVE sort(_)
sort(acts) ==
    IF acts = <<>> THEN <<>>
    ELSE insert_sorted(acts[Len(acts)], sort(SubSeq(acts, 1, Len(acts) - 1)))

\* One printed line: its kind and the values printed in it.
NoLine ==
    [kind |-> "", cycle |-> 0, address_mode |-> <<>>, operation |-> <<>>,
     cpu_mode |-> <<>>, opcode |-> 0, action |-> <<>>, join |-> FALSE]

\* "if (reg_cyle == %hu) begin" and "end // cycle %hu"
LineIfCycle(mi) == [NoLine EXCEPT !.kind = "if_cycle", !.cycle = mi.cycle]
LineEndCycle(mi) == [NoLine EXCEPT !.kind = "end_cycle", !.cycle = mi.cycle]
\* "if (reg_address_mode_%s) begin" and "end // %s"
LineIfMode(mi) == [NoLine EXCEPT !.kind = "if_mode", !.address_mode = mi.address_mode]
LineEndMode(mi) == [NoLine EXCEPT !.kind = "end_mode", !.address_mode = mi.address_mode]
\* "if (", ") begin", the action, "end"
LineIfOpen == [NoLine EXCEPT !.kind = "if_open"]
LineBegin == [NoLine EXCEPT !.kind = "begin"]
LineBody(mi) == [NoLine EXCEPT !.kind = "body", !.action = mi.action]
LineEnd == [NoLine EXCEPT !.kind = "end"]
\* mutant: no predicate is prefixed with "|| "
LinePredicate_unprefixed(mi, join) ==
    [NoLine EXCEPT !.kind = "predicate", !.operation = mi.operation,
                   !.cpu_mode = mi.cpu_mode, !.opcode = mi.opcode, !.join = FALSE]
\* "[|| ]reg_operation_%s // %s [%02hX]"
LinePredicate(mi, join) ==
    [NoLine EXCEPT !.kind = "predicate", !.operation = mi.operation,
                   !.cpu_mode = mi.cpu_mode, !.opcode = mi.opcode, !.join = join]
\* "// also: %s %s [%02hX]"
LineAlso(mi) ==
    [NoLine EXCEPT !.kind = "also", !.operation = mi.operation,
                   !.cpu_mode = mi.cpu_mode, !.opcode = mi.opcode]

\* The emitters take and return the 0-based index of the code; g_actions[i]
\* of the code is acts[i + 1]. last = -1 stands for last_mi = NULL.
\* Each returns [index, out]: the index it returns and the lines it printed.

\* mutant: a record whose operation is already in the guard is passed over
\* without being printed
RECURSIVE gen_code_for_action_loop_silent(_, _, _, _, _)
gen_code_for_action_loop_silent(acts, first, i, last, lines) ==
    IF ~(i < Len(acts)) THEN [index |-> i, out |-> lines]
    ELSE LET mi == acts[i + 1]
             first_mi == acts[first + 1]
         IN IF mi.cycle # first_mi.cycle THEN [index |-> i, out |-> lines]
            ELSE IF strcmp(mi.address_mode, first_mi.address_mode) # 0
                 THEN [index |-> i, out |-> lines]
            ELSE IF mi.action # first_mi.action THEN [index |-> i, out |-> lines]
            ELSE IF last # -1 /\ strcmp(acts[last + 1].operation, mi.operation) = 0
                 THEN gen_code_for_action_loop_silent(acts, first, i + 1, last, lines)
            ELSE gen_code_for_action_loop_silent(acts, first, i + 1, i,
                                                 Append(lines, LinePredicate(mi, i # first)))

\* mutant: the run also ends where the operation changes
RECURSIVE gen_code_for_action_loop_split(_, _, _, _, _)
gen_code_for_action_loop_split(acts, first, i, last, lines) ==
    IF ~(i < Len(acts)) THEN [index |-> i, out |-> lines]
    ELSE LET mi == acts[i + 1]
             first_mi == acts[first + 1]
         IN IF mi.cycle # first_mi.cycle THEN [index |-> i, out |-> lines]
            ELSE IF strcmp(mi.address_mode, first_mi.address_mode) # 0
                 THEN [index |-> i, out |-> lines]
            ELSE IF mi.action # first_mi.action THEN [index |-> i, out |-> lines]
            ELSE IF strcmp(mi.operation, first_mi.operation) # 0
                 THEN [index |-> i, out |-> lines]
            ELSE IF last # -1 /\ strcmp(acts[last + 1].operation, mi.operation) = 0
                 THEN gen_code_for_action_loop_split(acts, first, i + 1, last,
                                                     Append(lines, LineAlso(mi)))
            ELSE gen_code_for_action_loop_split(acts, first, i + 1, i,
                                                Append(lines, LinePredicate(mi, i # first)))

\* the while loop of gen_code_for_action
RECURSIVE gen_code_for_action_loop(_, _, _, _, _)
gen_code_for_action_loop(acts, first, i, last, lines) ==
    IF ~(i < Len(acts)) THEN [index |-> i, out |-> lines]
    ELSE LET mi == acts[i + 1]
             first_mi == acts[first + 1]
         IN IF mi.cycle # first_mi.cycle THEN [index |-> i, out |-> lines]
            ELSE IF strcmp(mi.address_mode, first_mi.address_mode) # 0
                 THEN [index |-> i, out |-> lines]
            ELSE IF mi.action # first_mi.action THEN [index |-> i, out |-> lines]
            ELSE IF last # -1 /\ strcmp(acts[last + 1].operation, mi.operation) = 0
                 THEN gen_code_for_action_loop(acts, first, i + 1, last,
                                               Append(lines, LineAlso(mi)))
            ELSE gen_code_for_action_loop(acts, first, i + 1, i,
                                          Append(lines, LinePredicate(mi, i # first)))

\* mutant: the index returned is one too far
gen_code_for_action_overrunning(acts, i) ==
    LET r == gen_code_for_action_loop(acts, i, i, -1, <<LineIfOpen>>)
    IN [index |-> r.index + 1,
        out |-> r.out \o <<LineBegin, LineBody(acts[i + 1]), LineEnd>>]

gen_code_for_action(acts, i) ==
    LET r == gen_code_for_action_loop(acts, i, i, -1, <<LineIfOpen>>)
    IN [index |-> r.index,
        out |-> r.out \o <<LineBegin, LineBody(acts[i + 1]), LineEnd>>]

\* mutant: an addressing-mode block ends only where the addressing mode changes
RECURSIVE gen_code_for_address_mode_loop_ignoring_cycle(_, _, _, _)
gen_code_for_address_mode_loop_ignoring_cycle(acts, first, i, lines) ==
    IF ~(i < Len(acts)) THEN [index |-> i, out |-> lines]
    ELSE LET mi == acts[i + 1]
             first_mi == acts[first + 1]
         IN IF strcmp(mi.address_mode, first_mi.address_mode) # 0
            THEN [index |-> i, out |-> lines]
            ELSE LET r == gen_code_for_action(acts, i)
                 IN gen_code_for_address_mode_loop_ignoring_cycle(acts, first, r.index,
                                                                  lines \o r.out)

\* the while loop of gen_code_for_address_mode
RECURSIVE gen_code_for_address_mode_loop(_, _, _, _)
gen_code_for_address_mode_loop(acts, first, i, lines) ==
    IF ~(i < Len(acts)) THEN [index |-> i, out |-> lines]
    ELSE LET mi == acts[i + 1]
             first_mi == acts[first + 1]
         IN IF mi.cycle # first_mi.cycle THEN [index |-> i, out |-> lines]
            ELSE IF strcmp(mi.address_mode, first_mi.address_mode) # 0
                 THEN [index |-> i, out |-> lines]
            ELSE LET r == gen_code_for_action(acts, i)
                 IN gen_code_for_address_mode_loop(acts, first, r.index, lines \o r.out)

gen_code_for_address_mode(acts, i) ==
    LET r == gen_code_for_address_mode_loop(acts, i, i, <<LineIfMode(acts[i + 1])>>)
    IN [index |-> r.index, out |-> Append(r.out, LineEndMode(acts[i + 1]))]

\* the while loop of gen_code_for_cycle
RECURSIVE gen_code_for_cycle_loop(_, _, _, _)
gen_code_for_cycle_loop(acts, first, i, lines) ==
    IF ~(i < Len(acts)) THEN [index |-> i, out |-> lines]
    ELSE IF acts[i + 1].cycle # acts[first + 1].cycle THEN [index |-> i, out |-> lines]
    ELSE LET r == gen_code_for_address_mode(acts, i)
         IN gen_code_for_cycle_loop(acts, first, r.index, lines \o r.out)

gen_code_for_cycle(acts, i) ==
    LET r == gen_code_for_cycle_loop(acts, i, i, <<LineIfCycle(acts[i + 1])>>)
    IN [index |-> r.index, out |-> Append(r.out, LineEndCycle(acts[i + 1]))]

\* the while loop of main, run to its end from index i
RECURSIVE main_loop(_, _, _)
main_loop(acts, i, lines) ==
    IF ~(i < Len(acts)) THEN lines
    ELSE LET r == gen_code_for_cycle(acts, i)
         IN main_loop(acts, r.index, lines \o r.out)

----------------------------------------------------------------------------
(* The build phase: gen_6502_instructions and gen_65832_instructions are    *)
(* sequences of builder calls. The model makes any sequence of the calls   *)
(* below, with arguments drawn from these sets.                            *)

ModeSet == {MODE_6502}
OpcodeSet == {24}
OperationSet == {OP_CLC}
FlagValues == {0}

Builder == [mi |-> g_mi, acts |-> g_actions]

NoComposite == [name |-> "none", width |-> 0, cycle |-> 0, len |-> 0]

\* no call recorded: n counts the calls recorded so far
NoCall == [name |-> "none", mi |-> NewMicroInstruction, acts |-> <<>>, n |-> 0]

\* The effect of a call that turns the builder state into t, with its history.
\* kind: "begin" ends the opcode definition in progress and begins the next,
\* "set" is a field setter, "act" is an action-builder call.
Effect(kind, t) ==
    /\ pc = "build"
    /\ g_mi' = t.mi
    /\ g_actions' = t.acts
    /\ def_of' = def_of \o [i \in 1..(Len(t.acts) - Len(g_actions)) |-> cur_def]
    /\ cur_def' = IF kind = "begin" /\ \E i \in 1..Len(def_of') : def_of'[i] = cur_def
                  THEN cur_def + 1 ELSE cur_def
    /\ acted' = (kind = "act" \/ (kind = "set" /\ acted))
    /\ dropped' = IF kind = "begin" THEN g_mi.operation # OP_NONE /\ ~acted ELSE dropped
    /\ UNCHANGED <<index, out, unsorted>>

Called(kind, t) ==
    /\ Len(t.acts) <= MaxStore
    /\ t.mi.cycle <= MaxCycle
    /\ Effect(kind, t)
    /\ UNCHANGED <<pc, last_composite, last_call>>

Call_set_mode == \E m \in ModeSet : Called("begin", set_mode(Builder, m))

Call_set_opcode == \E b \in OpcodeSet : Called("begin", set_opcode(Builder, b))

Call_flush_instruction == Called("begin", flush_instruction(Builder))

Call_set_operation == \E op \in OperationSet : Called("set", set_operation(Builder, op))

\* clear_flag(C)
Call_assign == \E n \in FlagValues : Called("act", assign_n(Builder, C, n))

Call_read_byte == Called("act", read_byte(Builder, ADDR, part(RQW, 7, 0)))

BuildNext ==
    \/ Call_set_mode
    \/ Call_set_opcode
    \/ Call_flush_instruction
    \/ Call_set_operation
    \/ Call_assign
    \/ Call_read_byte

----------------------------------------------------------------------------
(* main, after the table is built *)

\* flush_mode() of main
main_flush_mode ==
    /\ Effect("begin", flush_mode(Builder))
    /\ pc' = "sort"
    /\ UNCHANGED <<last_composite, last_call>>

\* std::sort and int index = 0
main_sort ==
    /\ pc = "sort"
    /\ unsorted' = g_actions
    /\ g_actions' = sort(g_actions)
    /\ index' = 0
    /\ pc' = "emit"
    /\ UNCHANGED <<g_mi, out, def_of, cur_def, acted, dropped, last_composite, last_call>>

\* one iteration of main's while loop
main_gen_code_for_cycle ==
    /\ pc = "emit"
    /\ index < Len(g_actions)
    /\ LET r == gen_code_for_cycle(g_actions, index)
       IN /\ index' = r.index
          /\ out' = out \o r.out
    /\ UNCHANGED <<g_mi, g_actions, pc, unsorted, def_of, cur_def, acted, dropped,
                   last_composite, last_call>>

\* the loop condition fails: return 0
main_return ==
    /\ pc = "emit"
    /\ ~(index < Len(g_actions))
    /\ pc' = "done"
    /\ UNCHANGED <<g_mi, g_actions, index, out, unsorted, def_of, cur_def, acted, dropped,
                   last_composite, last_call>>

EmitNext ==
    \/ main_sort
    \/ main_gen_code_for_cycle
    \/ main_return

Init ==
    /\ g_mi = NewMicroInstruction
    /\ g_actions = <<>>
    /\ pc = "build"
    /\ index = 0
    /\ out = <<>>
    /\ unsorted = <<>>
    /\ def_of = <<>>
    /\ cur_def = 0
    /\ acted = FALSE
    /\ dropped = FALSE
    /\ last_composite = NoComposite
    /\ last_call = NoCall

Next ==
    \/ BuildNext
    \/ main_flush_mode
    \/ EmitNext

\* the whole program: any table build, then sort and emission
Spec == Init /\ [][Next]_vars

----------------------------------------------------------------------------
(* Sort and emission of an arbitrary Store. Every sequence of records with  *)
(* a real operation and a non-empty action is a Store some build leaves.    *)

EmitBase ==
    [cpu_mode |-> MODE_6502, opcode |-> 24, operation |-> OP_CLC,
     address_mode |-> IMP_i, which |-> 0, cycle |-> 0,
     action |-> C \o S_ASSIGN \o Decimal(0) \o S_SEMI]

\* EmitBase and the records that differ from it in one field of the sort key
EmitRecords ==
    { EmitBase,
      [EmitBase EXCEPT !.cycle = 1],
      [EmitBase EXCEPT !.address_mode = STK_s],
      [EmitBase EXCEPT !.action = C \o S_ASSIGN \o Decimal(1) \o S_SEMI],
      [EmitBase EXCEPT !.operation = OP_CLD],
      [EmitBase EXCEPT !.cpu_mode = MODE_65832],
      [EmitBase EXCEPT !.which = 3],
      [EmitBase EXCEPT !.opcode = 216] }

SeqsUpTo(S, n) == UNION { [1..k -> S] : k \in 0..n }

InitEmit ==
    /\ g_mi = NewMicroInstruction
    /\ g_actions \in SeqsUpTo(EmitRecords, MaxEmit)
    /\ pc = "sort"
    /\ index = 0
    /\ out = <<>>
    /\ unsorted = <<>>
    /\ def_of = <<>>
    /\ cur_def = 0
    /\ acted = FALSE
    /\ dropped = FALSE
    /\ last_composite = NoComposite
    /\ last_call = NoCall

SpecEmit == InitEmit /\ [][EmitNext]_vars

\* What every step of EmitNext does to pc and index. EmitNext is enabled
\* exactly where pc is "sort" or "emit": main_sort has no other guard, and in
\* the loop one of main_gen_code_for_cycle and main_return is enabled.
main_step ==
    /\ pc \in {"sort", "emit"}
    /\ pc' \in {"emit", "done"}
    /\ index' \in 0..Len(g_actions)

\* main is a sequential program that keeps running: while it has a step to
\* take, it takes one
SpecEmitFair == SpecEmit /\ WF_<<pc, index>>(main_step)

----------------------------------------------------------------------------
(* The composite primitives, each called in a pending state drawn from the *)
(* states a build can be in before an action-builder call.                 *)

PendingStates ==
    { [NewMicroInstruction EXCEPT !.cpu_mode = MODE_6502, !.opcode = 24,
                                  !.address_mode = IMP_i, !.operation = op,
                                  !.cycle = c, !.action = a] :
        op \in {OP_NONE, OP_CLC},
        c \in 0..MaxCompositeCycle,
        a \in {S_EMPTY, C \o S_ASSIGN \o Decimal(0) \o S_SEMI} }

InitComposite ==
    /\ g_mi \in PendingStates
    /\ g_actions = <<>>
    /\ pc = "build"
    /\ index = 0
    /\ out = <<>>
    /\ unsorted = <<>>
    /\ def_of = <<>>
    /\ cur_def = 0
    /\ acted = FALSE
    /\ dropped = FALSE
    /\ last_composite = NoComposite
    /\ last_call = NoCall

CompositeCalled(name, width, t) ==
    /\ g_mi.cycle <= MaxCompositeCycle
    /\ Effect("act", t)
    /\ UNCHANGED <<pc, last_call>>
    /\ last_composite' = [name |-> name, width |-> width,
                          cycle |-> g_mi.cycle, len |-> Len(Builder.acts)]

Call_push_half_word == CompositeCalled("push_half_word", 2, push_half_word(Builder, PC))

Call_push_word == CompositeCalled("push_word", 4, push_word(Builder, PC))

Call_push_double_word == CompositeCalled("push_double_word", 8, push_double_word(Builder, PC))

Call_push_quad_word == CompositeCalled("push_quad_word", 16, push_quad_word(Builder, PC))

Call_pop_half_word == CompositeCalled("pop_half_word", 2, pop_half_word(Builder, A))

Call_pop_word == CompositeCalled("pop_word", 4, pop_word(Builder, A))

Call_pop_double_word == CompositeCalled("pop_double_word", 8, pop_double_word(Builder, A))

Call_pop_quad_word == CompositeCalled("pop_quad_word", 16, pop_quad_word(Builder, A))

Call_load_half_word == CompositeCalled("load_half_word", 2, load_half_word(Builder, A))

Call_load_word == CompositeCalled("load_word", 4, load_word(Builder, A))

Call_load_double_word == CompositeCalled("load_double_word", 8, load_double_word(Builder, A))

Call_load_quad_word == CompositeCalled("load_quad_word", 16, load_quad_word(Builder, A))

Call_read_half_word == CompositeCalled("read_half_word", 2, read_half_word(Builder, ADDR, A))

Call_read_word == CompositeCalled("read_word", 4, read_word(Builder, ADDR, A))

Call_read_double_word == CompositeCalled("read_double_word", 8, read_double_word(Builder, ADDR, A))

Call_read_quad_word == CompositeCalled("read_quad_word", 16, read_quad_word(Builder, ADDR, A))

Call_write_half_word == CompositeCalled("write_half_word", 2, write_half_word(Builder, ADDR, A))

Call_write_word == CompositeCalled("write_word", 4, write_word(Builder, ADDR, A))

Call_write_double_word == CompositeCalled("write_double_word", 8, write_double_word(Builder, ADDR, A))

Call_write_quad_word == CompositeCalled("write_quad_word", 16, write_quad_word(Builder, ADDR, A))

CompositeNext ==
    \/ Call_push_half_word
    \/ Call_push_word
    \/ Call_push_double_word
    \/ Call_push_quad_word
    \/ Call_pop_half_word
    \/ Call_pop_word
    \/ Call_pop_double_word
    \/ Call_pop_quad_word
    \/ Call_load_half_word
    \/ Call_load_word
    \/ Call_load_double_word
    \/ Call_load_quad_word
    \/ Call_read_half_word
    \/ Call_read_word
    \/ Call_read_double_word
    \/ Call_read_quad_word
    \/ Call_write_half_word
    \/ Call_write_word
    \/ Call_write_double_word
    \/ Call_write_quad_word

SpecComposite == InitComposite /\ [][CompositeNext]_vars

----------------------------------------------------------------------------
(* The builder calls one at a time: up to MaxCalls calls, each recorded     *)
(* with the state it was made in, from a pending state and a Store a build  *)
(* can have left.                                                           *)

CallStores == { <<>>, <<EmitBase>> }

InitCalls ==
    /\ g_mi \in PendingStates
    /\ g_actions \in CallStores
    /\ pc = "build"
    /\ index = 0
    /\ out = <<>>
    /\ unsorted = <<>>
    /\ def_of = [i \in 1..Len(g_actions) |-> 0]
    /\ cur_def = Len(g_actions)
    /\ acted = (g_mi.action # S_EMPTY \/ g_mi.cycle > 0)
    /\ dropped = FALSE
    /\ last_composite = NoComposite
    /\ last_call = NoCall

OneCall(name, kind, t) ==
    /\ last_call.n < MaxCalls
    /\ Effect(kind, t)
    /\ UNCHANGED <<pc, last_composite>>
    /\ last_call' = [name |-> name, mi |-> g_mi, acts |-> g_actions,
                     n |-> last_call.n + 1]

Do_set_mode == OneCall("set_mode", "begin", set_mode(Builder, MODE_65832))
Do_set_opcode == OneCall("set_opcode", "begin", set_opcode(Builder, 56))
Do_flush_mode == OneCall("flush_mode", "begin", flush_mode(Builder))
Do_flush_instruction == OneCall("flush_instruction", "begin", flush_instruction(Builder))
Do_set_operation == OneCall("set_operation", "set", set_operation(Builder, OP_SEC))
Do_set_address_mode == OneCall("set_address_mode", "set", set_address_mode(Builder, STK_s))
Do_set_which == OneCall("set_which", "set", set_which(Builder, 3))

Do_assign_n == OneCall("assign", "act", set_flag(Builder, C))
Do_assign == OneCall("assign", "act", assign(Builder, PC, ADDR))
Do_update_n == OneCall("update", "act", inc(Builder, ADDR))
Do_update == OneCall("update", "act", update(Builder, A, S_PLUS, D))
Do_copy == OneCall("copy", "act", copy(Builder, A, D))
Do_neg == OneCall("neg", "act", neg(Builder, A))
Do_invert == OneCall("invert", "act", invert(Builder, A))

Do_read_byte == OneCall("read_byte", "act", read_byte(Builder, ADDR, part(RQW, 7, 0)))
Do_read_byte_with_inc ==
    OneCall("read_byte_with_inc", "act", read_byte_with_inc(Builder, ADDR, part(RQW, 7, 0)))
Do_write_byte == OneCall("write_byte", "act", write_byte(Builder, ADDR, part(WQW, 7, 0)))
Do_write_byte_with_inc ==
    OneCall("write_byte_with_inc", "act", write_byte_with_inc(Builder, ADDR, part(WQW, 7, 0)))
Do_push_byte == OneCall("push_byte", "act", push_byte(Builder, part(PC, 7, 0)))
Do_pop_byte == OneCall("pop_byte", "act", pop_byte(Builder, part(PC, 7, 0)))
Do_load_byte == OneCall("load_byte", "act", load_byte(Builder, part(RQW, 7, 0)))

CallsNext ==
    \/ Do_set_mode
    \/ Do_set_opcode
    \/ Do_flush_mode
    \/ Do_flush_instruction
    \/ Do_set_operation
    \/ Do_set_address_mode
    \/ Do_set_which
    \/ Do_assign_n
    \/ Do_assign
    \/ Do_update_n
    \/ Do_update
    \/ Do_copy
    \/ Do_neg
    \/ Do_invert
    \/ Do_read_byte
    \/ Do_read_byte_with_inc
    \/ Do_write_byte
    \/ Do_write_byte_with_inc
    \/ Do_push_byte
    \/ Do_pop_byte
    \/ Do_load_byte

SpecCalls == InitCalls /\ [][CallsNext]_vars

----------------------------------------------------------------------------
(* part called with any pair of bit numbers, its text handed to an action-  *)
(* builder call as the table does.                                          *)

BitNumbers == 0..MaxBit

Part_assign ==
    \E highest \in BitNumbers, lowest \in BitNumbers :
        OneCall("assign", "act", assign(Builder, PC, part(ADDR, highest, lowest)))

Part_read_byte ==
    \E highest \in BitNumbers, lowest \in BitNumbers :
        OneCall("read_byte", "act", read_byte(Builder, ADDR, part(RQW, highest, lowest)))

PartNext ==
    \/ Part_assign
    \/ Part_read_byte
    \/ Do_flush_instruction

SpecPart == InitCalls /\ [][PartNext]_vars

----------------------------------------------------------------------------
(* A table of three flag opcodes, built call by call as the definitions of  *)
(* 0x18, 0x38 and 0xD8 are in gen_6502_instructions, in either variant and  *)
(* in any order of the three definitions, then sorted and emitted. Two of   *)
(* the three share their action.                                            *)

\* opcode -> operation and the value assigned to the carry flag
ExampleTable ==
    { [opcode |-> 24, operation |-> OP_CLC, n |-> 0],
      [opcode |-> 56, operation |-> OP_SEC, n |-> 1],
      [opcode |-> 216, operation |-> OP_CLD, n |-> 0] }

ExampleEntry(opcode) == CHOOSE e \in ExampleTable : e.opcode = opcode

ExampleCalled(name, kind, t) ==
    /\ Effect(kind, t)
    /\ UNCHANGED <<pc, last_composite>>
    /\ last_call' = [name |-> name, mi |-> g_mi, acts |-> g_actions,
                     n |-> last_call.n + 1]

Example_set_mode ==
    /\ last_call.name = "none"
    /\ \E m \in {MODE_6502, MODE_65832} :
          ExampleCalled("set_mode", "begin", set_mode(Builder, m))

Example_set_opcode ==
    /\ last_call.name \in {"set_mode", "set_flag", "clear_flag"}
    /\ \E e \in ExampleTable :
          /\ e.opcode # g_mi.opcode
          /\ \A i \in 1..Len(g_actions) : g_actions[i].opcode # e.opcode
          /\ ExampleCalled("set_opcode", "begin", set_opcode(Builder, e.opcode))

Example_set_operation ==
    /\ last_call.name = "set_opcode"
    /\ ExampleCalled("set_operation", "set",
                     set_operation(Builder, ExampleEntry(g_mi.opcode).operation))

Example_set_address_mode ==
    /\ last_call.name = "set_operation"
    /\ ExampleCalled("set_address_mode", "set", set_address_mode(Builder, IMP_i))

Example_set_flag ==
    /\ last_call.name = "set_address_mode"
    /\ ExampleEntry(g_mi.opcode).n = 1
    /\ ExampleCalled("set_flag", "act", set_flag(Builder, C))

Example_clear_flag ==
    /\ last_call.name = "set_address_mode"
    /\ ExampleEntry(g_mi.opcode).n = 0
    /\ ExampleCalled("clear_flag", "act", clear_flag(Builder, C))

ExampleNext ==
    \/ Example_set_mode
    \/ Example_set_opcode
    \/ Example_set_operation
    \/ Example_set_address_mode
    \/ Example_set_flag
    \/ Example_clear_flag
    \/ main_flush_mode
    \/ EmitNext

SpecExample == Init /\ [][ExampleNext]_vars

----------------------------------------------------------------------------
(* A table in the form the definitions of gen_6502_instructions have:       *)
(* set_mode, then opcode definitions, each set_opcode, set_operation,       *)
(* set_address_mode and action-builder calls in this order; then the same   *)
(* for the second variant. The opcode may be one defined before, and a      *)
(* definition may leave set_operation or set_address_mode out. Then main.   *)

DefOpcodes == {24, 56}

DefActionCalls == {"clear_flag", "set_flag", "read_byte"}

DefCalled(name, kind, t) ==
    /\ last_call.n < MaxDefCalls
    /\ ExampleCalled(name, kind, t)

Def_set_mode ==
    /\ last_call.name = "none"
    /\ DefCalled("set_mode", "begin", set_mode(Builder, MODE_6502))

\* gen_65832_instructions begins: the second variant
Def_set_mode_65832 ==
    /\ last_call.name \in DefActionCalls
    /\ g_mi.cpu_mode = MODE_6502
    /\ DefCalled("set_mode", "begin", set_mode(Builder, MODE_65832))

Def_set_opcode ==
    /\ last_call.name \in {"set_mode"} \cup DefActionCalls
    /\ \E opcode \in DefOpcodes :
          DefCalled("set_opcode", "begin", set_opcode(Builder, opcode))

Def_set_operation ==
    /\ last_call.name = "set_opcode"
    /\ DefCalled("set_operation", "set",
                 set_operation(Builder, ExampleEntry(g_mi.opcode).operation))

Def_set_address_mode ==
    /\ last_call.name \in {"set_opcode", "set_operation"}
    /\ DefCalled("set_address_mode", "set", set_address_mode(Builder, IMP_i))

Def_clear_flag ==
    /\ last_call.name \in {"set_opcode", "set_operation", "set_address_mode"} \cup DefActionCalls
    /\ DefCalled("clear_flag", "act", clear_flag(Builder, C))

Def_set_flag ==
    /\ last_call.name \in {"set_opcode", "set_operation", "set_address_mode"} \cup DefActionCalls
    /\ DefCalled("set_flag", "act", set_flag(Builder, C))

Def_read_byte ==
    /\ last_call.name \in {"set_opcode", "set_operation", "set_address_mode"} \cup DefActionCalls
    /\ DefCalled("read_byte", "act", read_byte(Builder, ADDR, part(RQW, 7, 0)))

DefNext ==
    \/ Def_set_mode
    \/ Def_set_mode_65832
    \/ Def_set_opcode
    \/ Def_set_operation
    \/ Def_set_address_mode
    \/ Def_clear_flag
    \/ Def_set_flag
    \/ Def_read_byte
    \/ main_flush_mode
    \/ EmitNext

SpecDefinitions == Init /\ [][DefNext]_vars

----------------------------------------------------------------------------
(* A stretch of the table of gen_6502_instructions, call by call: the eight *)
(* SMB definitions, which are the last to call set_which, and the DEY       *)
(* definition that follows them; then main.                                 *)

SMBOpcodes == <<135, 151, 167, 183, 199, 215, 231, 247>>

\* the calls of one SMB definition: k is the bit, 0..7
SMBDefinition(k) ==
    << [call |-> "set_opcode", opcode |-> SMBOpcodes[k + 1]],
       [call |-> "set_operation", operation |-> OP_SMB],
       [call |-> "set_address_mode", address_mode |-> ZPG_zp],
       [call |-> "set_which", which |-> k] >>

DEYDefinition ==
    << [call |-> "set_opcode", opcode |-> 136],
       [call |-> "set_operation", operation |-> OP_DEY],
       [call |-> "set_address_mode", address_mode |-> IMP_i],
       [call |-> "decrement", reg |-> Y] >>

TableStretch ==
    SMBDefinition(0) \o SMBDefinition(1) \o SMBDefinition(2) \o SMBDefinition(3)
        \o SMBDefinition(4) \o SMBDefinition(5) \o SMBDefinition(6) \o SMBDefinition(7)
        \o DEYDefinition

\* the call the build is at: last_call.n calls were made, set_mode first
AtCall(name) ==
    /\ last_call.n \in 1..Len(TableStretch)
    /\ TableStretch[last_call.n].call = name

NextCall == TableStretch[last_call.n]

Table_set_mode ==
    /\ last_call.name = "none"
    /\ ExampleCalled("set_mode", "begin", set_mode(Builder, MODE_6502))

Table_set_opcode ==
    /\ AtCall("set_opcode")
    /\ ExampleCalled("set_opcode", "begin", set_opcode(Builder, NextCall.opcode))

Table_set_operation ==
    /\ AtCall("set_operation")
    /\ ExampleCalled("set_operation", "set", set_operation(Builder, NextCall.operation))

Table_set_address_mode ==
    /\ AtCall("set_address_mode")
    /\ ExampleCalled("set_address_mode", "set",
                     set_address_mode(Builder, NextCall.address_mode))

Table_set_which ==
    /\ AtCall("set_which")
    /\ ExampleCalled("set_which", "set", set_which(Builder, NextCall.which))

Table_decrement ==
    /\ AtCall("decrement")
    /\ ExampleCalled("decrement", "act", decrement(Builder, NextCall.reg))

TableNext ==
    \/ Table_set_mode
    \/ Table_set_opcode
    \/ Table_set_operation
    \/ Table_set_address_mode
    \/ Table_set_which
    \/ Table_decrement
    \/ main_flush_mode
    \/ EmitNext

SpecTable == Init /\ [][TableNext]_vars

----------------------------------------------------------------------------
(* The action-builder calls, each made in a pending state and with a Store  *)
(* a build can have left, and followed by up to MaxFollow further calls.    *)
(* A call is a record: its name, the kind Effect takes, and the builder     *)
(* state it returns.                                                        *)

ActionCall(name, t) == [name |-> name, kind |-> "act", t |-> t]

TransferCallSet ==
    { ActionCall("assign", set_flag(Builder, C)),
      ActionCall("assign", assign(Builder, PC, ADDR)),
      ActionCall("update", inc(Builder, ADDR)),
      ActionCall("update", update(Builder, A, S_PLUS, D)),
      ActionCall("copy", copy(Builder, A, D)),
      ActionCall("neg", neg(Builder, A)),
      ActionCall("invert", invert(Builder, A)) }

ShiftCallSet ==
    UNION { { ActionCall("lsl", lsl(Builder, A, bits)),
              ActionCall("lsr", lsr(Builder, A, bits)),
              ActionCall("asl", asl(Builder, A, bits)),
              ActionCall("asr", asr(Builder, A, bits)) } : bits \in Widths }

BusCallSet ==
    { ActionCall("read_byte", read_byte(Builder, ADDR, part(RQW, 7, 0))),
      ActionCall("read_byte_with_inc", read_byte_with_inc(Builder, ADDR, part(RQW, 7, 0))),
      ActionCall("write_byte", write_byte(Builder, ADDR, part(WQW, 7, 0))),
      ActionCall("write_byte_with_inc", write_byte_with_inc(Builder, ADDR, part(WQW, 7, 0))),
      ActionCall("push_byte", push_byte(Builder, part(PC, 7, 0))),
      ActionCall("pop_byte", pop_byte(Builder, part(PC, 7, 0))),
      ActionCall("load_byte", load_byte(Builder, part(RQW, 7, 0))) }

CompositeCallSet ==
    { ActionCall("push_half_word", push_half_word(Builder, PC)),
      ActionCall("push_word", push_word(Builder, PC)),
      ActionCall("push_double_word", push_double_word(Builder, PC)),
      ActionCall("push_quad_word", push_quad_word(Builder, PC)),
      ActionCall("pop_half_word", pop_half_word(Builder, A)),
      ActionCall("pop_word", pop_word(Builder, A)),
      ActionCall("pop_double_word", pop_double_word(Builder, A)),
      ActionCall("pop_quad_word", pop_quad_word(Builder, A)),
      ActionCall("load_half_word", load_half_word(Builder, A)),
      ActionCall("load_word", load_word(Builder, A)),
      ActionCall("load_double_word", load_double_word(Builder, A)),
      ActionCall("load_quad_word", load_quad_word(Builder, A)),
      ActionCall("read_half_word", read_half_word(Builder, ADDR, A)),
      ActionCall("read_word", read_word(Builder, ADDR, A)),
      ActionCall("read_double_word", read_double_word(Builder, ADDR, A)),
      ActionCall("read_quad_word", read_quad_word(Builder, ADDR, A)),
      ActionCall("write_half_word", write_half_word(Builder, ADDR, A)),
      ActionCall("write_word", write_word(Builder, ADDR, A)),
      ActionCall("write_double_word", write_double_word(Builder, ADDR, A)),
      ActionCall("write_quad_word", write_quad_word(Builder, ADDR, A)) }

\* the calls that follow the call under test: a register transfer, the bus
\* primitives, the two calls that end an opcode definition and the field
\* setters
FollowCallSet ==
    BusCallSet \cup
    { ActionCall("assign", assign(Builder, PC, ADDR)),
      [name |-> "set_opcode", kind |-> "begin", t |-> set_opcode(Builder, 56)],
      [name |-> "flush_instruction", kind |-> "begin", t |-> flush_instruction(Builder)],
      [name |-> "set_operation", kind |-> "set", t |-> set_operation(Builder, OP_SEC)],
      [name |-> "set_address_mode", kind |-> "set", t |-> set_address_mode(Builder, STK_s)],
      [name |-> "set_which", kind |-> "set", t |-> set_which(Builder, 5)] }

\* the pending states, in a definition that has called set_which(3)
InitActions ==
    /\ g_mi \in { [mi EXCEPT !.which = 3] : mi \in PendingStates }
    /\ g_actions \in CallStores
    /\ pc = "build"
    /\ index = 0
    /\ out = <<>>
    /\ unsorted = <<>>
    /\ def_of = [i \in 1..Len(g_actions) |-> 0]
    /\ cur_def = Len(g_actions)
    /\ acted = (g_mi.action # S_EMPTY \/ g_mi.cycle > 0)
    /\ dropped = FALSE
    /\ last_composite = NoComposite
    /\ last_call = NoCall

\* the call under test: the first call made
Test(calls) ==
    /\ last_call.n = 0
    /\ \E c \in calls : ExampleCalled(c.name, c.kind, c.t)

Test_transfer == Test(TransferCallSet)

Test_shift == Test(ShiftCallSet)

Test_bus == Test(BusCallSet)

Test_composite == Test(CompositeCallSet)

Follow ==
    /\ last_call.n \in 1..MaxFollow
    /\ \E c \in FollowCallSet : ExampleCalled(c.name, c.kind, c.t)

ActionsNext ==
    \/ Test_transfer
    \/ Test_shift
    \/ Test_bus
    \/ Test_composite
    \/ Follow

SpecActions == InitActions /\ [][ActionsNext]_vars

----------------------------------------------------------------------------
(* Reading the printed output back: guards, their entries and their place  *)

SetMax(S) == CHOOSE x \in S : \A y \in S : y <= x
SetMin(S) == CHOOSE x \in S : \A y \in S : x <= y
Range(s) == { s[i] : i \in 1..Len(s) }

Positions(o, kinds) == { i \in 1..Len(o) : o[i].kind \in kinds }

\* the lines that name a record: a predicate of a guard or an annotation of it
EntryPositions(o) == Positions(o, {"predicate", "also"})

\* the "if (" lines: one per guarded statement
GuardStarts(o) == Positions(o, {"if_open"})

\* the ") begin" line closing the guard opened at line g
GuardBegin(o, g) == SetMin({ j \in Positions(o, {"begin"}) : j > g })
GuardEntries(o, g) == { j \in EntryPositions(o) : g < j /\ j < GuardBegin(o, g) }
GuardPredicates(o, g) == { j \in GuardEntries(o, g) : o[j].kind = "predicate" }
GuardBody(o, g) == o[GuardBegin(o, g) + 1].action

\* the cycle block and the addressing-mode block open at line i
CycleAt(o, i) == o[SetMax({ j \in Positions(o, {"if_cycle"}) : j < i })].cycle
ModeAt(o, i) == o[SetMax({ j \in Positions(o, {"if_mode"}) : j < i })].address_mode
GuardAt(o, i) == SetMax({ g \in GuardStarts(o) : g < i })

Triple(mi) == [cycle |-> mi.cycle, address_mode |-> mi.address_mode, action |-> mi.action]
GuardTriple(o, g) ==
    [cycle |-> CycleAt(o, g), address_mode |-> ModeAt(o, g), action |-> GuardBody(o, g)]

\* what the output says of a record: where it is printed and what is printed of it
Printed(mi) ==
    [cycle |-> mi.cycle, address_mode |-> mi.address_mode, action |-> mi.action,
     operation |-> mi.operation, cpu_mode |-> mi.cpu_mode, opcode |-> mi.opcode]

PrintedAt(o, i) ==
    [cycle |-> CycleAt(o, i), address_mode |-> ModeAt(o, i),
     action |-> GuardBody(o, GuardAt(o, i)),
     operation |-> o[i].operation, cpu_mode |-> o[i].cpu_mode, opcode |-> o[i].opcode]

\* the entry lines of the output, in the order printed
EntrySeq(o) == SelectSeq([i \in 1..Len(o) |-> i], LAMBDA i : o[i].kind \in {"predicate", "also"})
PrintedSeq(o) == [k \in 1..Len(EntrySeq(o)) |-> PrintedAt(o, EntrySeq(o)[k])]

Emitting == pc \in {"emit", "done"}

----------------------------------------------------------------------------
(* Claims about sort and emission, checked under SpecEmit *)

\* C1: grouping completeness. The entry lines printed so far are, in order,
\* exactly the records of the sorted Store before main's index, each under
\* the cycle block, addressing-mode block and guard body of its own
\* (cycle, address_mode, action); when main returns every record of the
\* Store has been printed exactly once.
C1_GroupingCompleteness ==
    Emitting =>
        /\ PrintedSeq(out) = [i \in 1..index |-> Printed(g_actions[i])]
        /\ pc = "done" => index = Len(g_actions)

\* a finished emission of three records with two guards, one with an annotation
C1_Witness ==
    /\ pc = "done"
    /\ Len(g_actions) = 3
    /\ Cardinality(GuardStarts(out)) = 2
    /\ Positions(out, {"also"}) # {}

\* C2: dedup. When main returns, the number of guarded action bodies equals
\* the number of distinct (cycle, address_mode, action) triples in the Store;
\* and in the sorted Store the records of one triple are contiguous.
C2_Dedup ==
    Emitting =>
        /\ \A i, j, k \in 1..Len(g_actions) :
             (i < k /\ k < j /\ Triple(g_actions[i]) = Triple(g_actions[j]))
                => Triple(g_actions[k]) = Triple(g_actions[i])
        /\ pc = "done" =>
             Cardinality(Positions(out, {"body"}))
                = Cardinality({ Triple(mi) : mi \in Range(unsorted) })

\* three records, two of them appended apart from each other, share a triple
C2_Witness ==
    /\ pc = "done"
    /\ Len(unsorted) = 3
    /\ Triple(unsorted[1]) = Triple(unsorted[3])
    /\ Triple(unsorted[1]) # Triple(unsorted[2])
    /\ unsorted[1].operation # unsorted[3].operation
    /\ Cardinality(Positions(out, {"body"})) = 2

\* C3: merge correctness. When main returns, two records of the Store that
\* share (cycle, address_mode, action) are in one guard, the only guard of
\* that triple; the guard has a predicate for the operation of each; its
\* first predicate is printed without "||" and every later one with "||";
\* and the shared action is its body, printed once.
C3_MergeCorrectness ==
    pc = "done" =>
        \A a, b \in Range(g_actions) :
            Triple(a) = Triple(b) =>
                /\ Cardinality({ g \in GuardStarts(out) : GuardTriple(out, g) = Triple(a) }) = 1
                /\ \E g \in GuardStarts(out) :
                     /\ GuardTriple(out, g) = Triple(a)
                     /\ Printed(a) \in { PrintedAt(out, j) : j \in GuardEntries(out, g) }
                     /\ Printed(b) \in { PrintedAt(out, j) : j \in GuardEntries(out, g) }
                     /\ \E j \in GuardPredicates(out, g) : out[j].operation = a.operation
                     /\ \E j \in GuardPredicates(out, g) : out[j].operation = b.operation
                     /\ \A j \in GuardPredicates(out, g) : out[j].join = (j # g + 1)
                     /\ out[g + 1].kind = "predicate"
                     /\ Cardinality({ j \in Positions(out, {"body"}) : GuardAt(out, j) = g }) = 1

\* two records that differ in operation, opcode and cpu_mode only: one guard
\* with two predicates joined by "||"
C3_Witness ==
    /\ pc = "done"
    /\ \E a, b \in Range(g_actions) :
         /\ Triple(a) = Triple(b)
         /\ a.operation # b.operation
         /\ a.opcode # b.opcode
    /\ \E a, b \in Range(g_actions) :
         /\ Triple(a) = Triple(b)
         /\ a.operation = b.operation
         /\ a.cpu_mode # b.cpu_mode
    /\ \E g \in GuardStarts(out) : Cardinality(GuardPredicates(out, g)) = 2

\* C4: in every guard the predicates name pairwise different operations, and
\* there are as many predicates as distinct operations among the records of
\* the guard; the other records of the guard are "also:" annotations.
C4_OnePredicatePerOperation ==
    Emitting =>
        \A g \in GuardStarts(out) :
            /\ \A i, j \in GuardPredicates(out, g) :
                 out[i].operation = out[j].operation => i = j
            /\ Cardinality(GuardPredicates(out, g))
                 = Cardinality({ out[j].operation : j \in GuardEntries(out, g) })
            /\ \A j \in GuardEntries(out, g) \ GuardPredicates(out, g) :
                 /\ out[j].kind = "also"
                 /\ \E i \in GuardPredicates(out, g) :
                      i < j /\ out[i].operation = out[j].operation

\* a guard with two predicates and an annotation
C4_Witness ==
    /\ pc = "done"
    /\ \E g \in GuardStarts(out) :
         /\ Cardinality(GuardPredicates(out, g)) = 2
         /\ Cardinality(GuardEntries(out, g)) = 3

\* the first field of the sort key in which two records differ, 0 if none:
\* 1 cycle, 2 address_mode, 3 action, 4 operation, 5 cpu_mode, 6 which, 7 opcode
Key(mi) ==
    <<<<mi.cycle>>, mi.address_mode, mi.action, mi.operation, mi.cpu_mode,
      <<mi.which>>, <<mi.opcode>>>>
FirstDifference(a, b) ==
    IF Key(a) = Key(b) THEN 0 ELSE SetMin({ f \in 1..7 : Key(a)[f] # Key(b)[f] })

\* x before y, bytewise: at the first position where they differ x has the
\* smaller code, or x is a proper prefix of y
Precedes(x, y) ==
    \/ \E k \in 1..Len(x) :
         /\ k <= Len(y)
         /\ SubSeq(x, 1, k - 1) = SubSeq(y, 1, k - 1)
         /\ x[k] < y[k]
    \/ Len(x) < Len(y) /\ x = SubSeq(y, 1, Len(x))

\* C5: compare_mi_objects is the lexicographic comparison of (cycle,
\* address_mode, action, operation, cpu_mode, which, opcode): its sign is
\* decided by the first field of that list in which the records differ,
\* numbers ascending and strings bytewise; it is 0 only for records equal in
\* all seven fields, it is antisymmetric and transitive, and compare_mi is
\* irreflexive. Stated of the records of the Store std::sort has just sorted.
C5_LexicographicOrder ==
    (pc = "emit" /\ index = 0) =>
    \A a, b \in Range(g_actions) :
        /\ LET f == FirstDifference(a, b)
           IN /\ f = 0 => compare_mi_objects(a, b) = 0
              /\ f # 0 => compare_mi_objects(a, b)
                             = IF Precedes(Key(a)[f], Key(b)[f]) THEN -1 ELSE 1
        /\ compare_mi_objects(a, b) = 0 => a = b
        /\ compare_mi_objects(a, b) = 0 - compare_mi_objects(b, a)
        /\ ~(compare_mi(a, b) /\ compare_mi(b, a))
        /\ ~compare_mi(a, a)
        /\ \A c \in Range(g_actions) :
             (compare_mi(a, b) /\ compare_mi(b, c)) => compare_mi(a, c)

\* a Store with three different records: two differ in the opcode alone, two
\* are ordered by operation against the order of their opcodes
C5_Witness ==
    /\ pc = "emit"
    /\ index = 0
    /\ Cardinality(Range(g_actions)) = 3
    /\ \E a, b \in Range(g_actions) : FirstDifference(a, b) = 7
    /\ \E a, b \in Range(g_actions) :
         FirstDifference(a, b) = 4 /\ compare_mi(a, b) /\ a.opcode > b.opcode

Permuted(s) == { [i \in 1..Len(s) |-> s[f[i]]] : f \in Permutations(1..Len(s)) }

\* C6: determinism. The output main has printed when it returns is the output
\* of sorting and emitting any permutation of the Store as it was built.
C6_Determinism ==
    pc = "done" => \A p \in Permuted(unsorted) : main_loop(sort(p), 0, <<>>) = out

\* a Store built out of order: sorting moved its records
C6_Witness ==
    /\ pc = "done"
    /\ Len(unsorted) = 3
    /\ Cardinality(Range(unsorted)) = 3
    /\ g_actions[1] = unsorted[3]
    /\ g_actions[3] = unsorted[1]

----------------------------------------------------------------------------
(* Claims about the build, checked under Spec *)

\* the Store in the order it was built, which def_of describes
Built == IF pc \in {"build", "sort"} THEN g_actions ELSE unsorted

HasPrefix(s, p) == Len(s) >= Len(p) /\ SubSeq(s, 1, Len(p)) = p

\* a record of a single-byte bus transaction: a READ_BYTE, a WRITE_BYTE or a push
IsBus(mi) ==
    \/ HasPrefix(mi.action, S_READ)
    \/ HasPrefix(mi.action, S_WRITE)
    \/ HasPrefix(mi.action, S_PUSH_PRE)

\* C7: cycle monotonicity. The cycle values of the records one opcode
\* definition contributed to the Store are exactly 0, 1, ..., k-1.
C7_CycleMonotonicity ==
    \A d \in 0..cur_def :
        LET cycles == { Built[i].cycle : i \in { j \in 1..Len(def_of) : def_of[j] = d } }
        IN cycles = 0..(Cardinality(cycles) - 1)

\* C8 as claimed: the i-th record of an opcode definition, counted from 0,
\* has cycle i.
C8_CycleIsPosition ==
    \A p \in 1..Len(def_of) :
        Built[p].cycle = p - SetMin({ q \in 1..Len(def_of) : def_of[q] = def_of[p] })

\* C8 as amended: within one opcode definition the cycle is advanced by
\* exactly 1 by each single-byte bus transaction and by nothing else. A
\* record that follows a bus record of its definition has that record's
\* cycle plus 1, a record that follows a register-transfer record has the
\* same cycle as it, and the pending cycle stands in the same relation to the
\* last record of the definition in progress.
C8_CycleAdvancesPerBusTransaction ==
    /\ \A p \in 1..(Len(def_of) - 1) :
         def_of[p] = def_of[p + 1] =>
            Built[p + 1].cycle = IF IsBus(Built[p]) THEN Built[p].cycle + 1
                                 ELSE Built[p].cycle
    /\ (pc = "build" /\ def_of # <<>> /\ def_of[Len(def_of)] = cur_def) =>
         g_mi.cycle = IF IsBus(Built[Len(Built)]) THEN Built[Len(Built)].cycle + 1
                      ELSE Built[Len(Built)].cycle

\* a definition with a register transfer and a bus transaction in one cycle
C8_Witness ==
    /\ pc = "build"
    /\ Len(g_actions) = 2
    /\ def_of[1] = def_of[2]
    /\ ~IsBus(g_actions[1])
    /\ IsBus(g_actions[2])
    /\ g_actions[1].cycle = g_actions[2].cycle
    /\ g_mi.cycle = g_actions[2].cycle + 1

\* C10: drop property. In an opcode definition without an action-builder
\* call, no call adds a record to the Store: neither the set_* calls nor the
\* set_opcode, set_mode or flush that ends it.
C10_Drop ==
    [][(pc = "build" /\ ~acted /\ ~acted') => g_actions' = g_actions]_vars

\* an opcode definition with an operation and no action has ended, after
\* another one had stored a record
C10_Witness ==
    /\ dropped
    /\ g_mi.operation = OP_NONE
    /\ Len(g_actions) = 1

----------------------------------------------------------------------------
(* Claims about the composite primitives, checked under SpecComposite *)

\* the records the last composite call appended
Appended == SubSeq(g_actions, last_composite.len + 1, Len(g_actions))

\* C9: composite width. A composite primitive for an N-byte quantity, called
\* with a real pending operation at pending cycle c, appends exactly N bus
\* records, their cycles are c, c+1, ..., c+N-1 in order, and the pending
\* cycle is c+N afterwards.
C9_CompositeWidth ==
    (last_composite.name # "none" /\ g_mi.operation # OP_NONE) =>
        LET bus == SelectSeq(Appended, IsBus)
        IN /\ Len(bus) = last_composite.width
           /\ \A i \in 1..Len(bus) : bus[i].cycle = last_composite.cycle + i - 1
           /\ g_mi.cycle = last_composite.cycle + last_composite.width

\* a 16-byte write called at cycle 2 with a register transfer pending
C9_Witness ==
    /\ last_composite.name = "write_quad_word"
    /\ last_composite.cycle = 2
    /\ g_mi.operation = OP_CLC
    /\ Len(Appended) = 18
    /\ g_mi.cycle = 18

----------------------------------------------------------------------------
(* Claims about single builder calls, checked under SpecCalls *)

\* the records the last recorded call appended to the Store
Stored == SubSeq(g_actions, Len(last_call.acts) + 1, Len(g_actions))

\* C11: Store retention. Every record in the Store has an operation other
\* than NONE and a non-empty action.
C11_StoreRetention ==
    \A i \in 1..Len(g_actions) :
        g_actions[i].operation # OP_NONE /\ g_actions[i].action # S_EMPTY

\* read_byte called with an action pending under operation NONE: the pending
\* action and the bus transaction are both kept out of the Store
C11_Witness ==
    /\ last_call.name = "read_byte"
    /\ last_call.mi.operation = OP_NONE
    /\ last_call.mi.action # S_EMPTY
    /\ g_actions = <<EmitBase>>
    /\ g_mi.cycle = last_call.mi.cycle + 1

\* C12: flush post-state. When set_opcode, set_mode or flush_instruction
\* returns, the Store is the Store of before followed by one copy of the
\* pending record if it had a real operation and a non-empty action, and by
\* nothing otherwise; the pending record has operation NONE, cycle 0 and an
\* empty action.
C12_FlushPostState ==
    last_call.name \in {"set_opcode", "set_mode", "flush_instruction"} =>
        /\ g_actions = last_call.acts \o
              (IF last_call.mi.operation # OP_NONE /\ last_call.mi.action # S_EMPTY
               THEN <<last_call.mi>> ELSE <<>>)
        /\ g_mi.operation = OP_NONE
        /\ g_mi.cycle = 0
        /\ g_mi.action = S_EMPTY

\* set_mode called with an action pending under a real operation at cycle 2:
\* the record stored keeps the cpu_mode of before
C12_Witness ==
    /\ last_call.name = "set_mode"
    /\ last_call.mi.operation = OP_CLC
    /\ last_call.mi.action # S_EMPTY
    /\ last_call.mi.cycle = 2
    /\ Stored = <<last_call.mi>>
    /\ g_mi.cpu_mode = MODE_65832
    /\ g_mi.cycle = 0

----------------------------------------------------------------------------
(* Claim about the example table, checked under SpecExample *)

ExampleRecord(m, opcode) ==
    [cpu_mode |-> m, opcode |-> opcode, operation |-> ExampleEntry(opcode).operation,
     address_mode |-> IMP_i, which |-> 0, cycle |-> 0,
     action |-> C \o S_ASSIGN \o Decimal(ExampleEntry(opcode).n) \o S_SEMI]

\* C13: end-to-end example. With 0x18 (CLC, implied, carry <= 0), 0x38 (SEC,
\* implied, carry <= 1) and 0xD8 (CLD, implied, carry <= 0) built in one
\* variant, the output is one cycle-0 block holding one implied-mode block
\* holding two guarded statements: CLC || CLD with body carry <= 0, then SEC
\* alone with body carry <= 1.
C13_EndToEndExample ==
    (pc = "done" /\ Len(g_actions) = 3) =>
        LET m == g_actions[1].cpu_mode
            clc == ExampleRecord(m, 24)
            sec == ExampleRecord(m, 56)
            cld == ExampleRecord(m, 216)
        IN out = << LineIfCycle(clc), LineIfMode(clc),
                    LineIfOpen, LinePredicate(clc, FALSE), LinePredicate(cld, TRUE),
                    LineBegin, LineBody(clc), LineEnd,
                    LineIfOpen, LinePredicate(sec, FALSE),
                    LineBegin, LineBody(sec), LineEnd,
                    LineEndMode(clc), LineEndCycle(clc) >>

\* the 65832 variant built in the order SEC, CLD, CLC and emitted
C13_Witness ==
    /\ pc = "done"
    /\ Len(unsorted) = 3
    /\ unsorted[1].operation = OP_SEC
    /\ unsorted[2].operation = OP_CLD
    /\ unsorted[3].operation = OP_CLC
    /\ unsorted[1].cpu_mode = MODE_65832
    /\ Len(out) = 15

----------------------------------------------------------------------------
(* Claim about the nesting of the output, checked under SpecEmit *)

\* the kinds of line that may follow a line of each kind, for blocks that
\* are opened and closed in order: cycle block, addressing-mode block, guard
MayFollow(kind) ==
    CASE kind = "if_cycle" -> {"if_mode"}
      [] kind = "if_mode" -> {"if_open"}
      [] kind = "if_open" -> {"predicate"}
      [] kind = "predicate" -> {"predicate", "also", "begin"}
      [] kind = "also" -> {"predicate", "also", "begin"}
      [] kind = "begin" -> {"body"}
      [] kind = "body" -> {"end"}
      [] kind = "end" -> {"if_open", "end_mode"}
      [] kind = "end_mode" -> {"if_mode", "end_cycle"}
      [] kind = "end_cycle" -> {"if_cycle"}

WellNested(o) ==
    /\ o # <<>> => o[1].kind = "if_cycle" /\ o[Len(o)].kind = "end_cycle"
    /\ \A i \in 1..(Len(o) - 1) : o[i + 1].kind \in MayFollow(o[i].kind)

\* the line closing the cycle block opened at line p, and the lines opening
\* the addressing-mode blocks inside it
CycleEnd(o, p) == SetMin({ j \in Positions(o, {"end_cycle"}) : j > p })
ModeStarts(o, p) == { j \in Positions(o, {"if_mode"}) : p < j /\ j < CycleEnd(o, p) }
ModeEnd(o, p) == SetMin({ j \in Positions(o, {"end_mode"}) : j > p })

\* C14: emission nesting. Over the sorted Store the output is a sequence of
\* cycle blocks, one per distinct cycle value and in ascending order of it;
\* each holds one addressing-mode block per distinct address_mode of the
\* records of that cycle; each block is closed under the name it was opened
\* with; and every record is printed inside the cycle block and the
\* addressing-mode block of its own cycle and address_mode.
C14_EmissionNesting ==
    Emitting =>
        LET done == SubSeq(g_actions, 1, index)
            cyc == Positions(out, {"if_cycle"})
        IN /\ WellNested(out)
           /\ \A p, q \in cyc : p < q => out[p].cycle < out[q].cycle
           /\ { out[p].cycle : p \in cyc } = { mi.cycle : mi \in Range(done) }
           /\ \A p \in cyc :
                /\ out[CycleEnd(out, p)].cycle = out[p].cycle
                /\ \A a, b \in ModeStarts(out, p) :
                     out[a].address_mode = out[b].address_mode => a = b
                /\ { out[a].address_mode : a \in ModeStarts(out, p) }
                     = { mi.address_mode : mi \in { r \in Range(done) : r.cycle = out[p].cycle } }
           /\ \A a \in Positions(out, {"if_mode"}) :
                out[ModeEnd(out, a)].address_mode = out[a].address_mode
           /\ Len(EntrySeq(out)) = Len(done)
           /\ \A k \in 1..Len(done) :
                /\ CycleAt(out, EntrySeq(out)[k]) = done[k].cycle
                /\ ModeAt(out, EntrySeq(out)[k]) = done[k].address_mode

\* two cycle blocks, the first with two addressing-mode blocks, and the
\* addressing mode of the second also present in the first
C14_Witness ==
    /\ pc = "done"
    /\ Len(g_actions) = 3
    /\ Cardinality(Positions(out, {"if_cycle"})) = 2
    /\ Cardinality(Positions(out, {"if_mode"})) = 3
    /\ g_actions[1].address_mode = g_actions[3].address_mode
    /\ g_actions[1].cycle # g_actions[3].cycle

\* the single-byte bus primitives, and the action text of the call each
\* Do_ action makes
BusCalls ==
    {"read_byte", "read_byte_with_inc", "write_byte", "write_byte_with_inc",
     "push_byte", "pop_byte", "load_byte"}

BusAction(name) ==
    CASE name \in {"read_byte", "read_byte_with_inc"} -> get_read_byte_action(ADDR, part(RQW, 7, 0))
      [] name \in {"write_byte", "write_byte_with_inc"} -> get_write_byte_action(ADDR, part(WQW, 7, 0))
      [] name = "push_byte" ->
            S_PUSH_PRE \o S_SPACE \o get_write_byte_action(S_TMP_SP, part(PC, 7, 0)) \o S_PUSH_POST
      [] name = "pop_byte" -> get_read_byte_action(SP, part(PC, 7, 0)) \o S_POP_POST
      [] name = "load_byte" -> get_read_byte_action(EPC, part(RQW, 7, 0)) \o S_LOAD_POST

\* the record a save stores for the pending record mi: none if mi has no action
Captured(mi) == IF mi.operation # OP_NONE /\ mi.action # S_EMPTY THEN <<mi>> ELSE <<>>

\* C15: single-byte bus primitives. Called with a real operation pending,
\* each of them appends exactly one record with the bus transaction as its
\* action and the pending cycle of the call as its cycle (after the record of
\* an action that was pending, if there was one), and leaves the pending
\* cycle one higher.
C15_BusPrimitive ==
    (last_call.name \in BusCalls /\ last_call.mi.operation # OP_NONE) =>
        /\ Stored = Captured(last_call.mi)
                      \o <<[last_call.mi EXCEPT !.action = BusAction(last_call.name)]>>
        /\ Len(SelectSeq(Stored, IsBus)) = 1
        /\ g_mi.cycle = last_call.mi.cycle + 1

\* write_byte_with_inc called at cycle 1 with a register transfer pending
C15_Witness ==
    /\ last_call.name = "write_byte_with_inc"
    /\ last_call.mi.operation = OP_CLC
    /\ last_call.mi.action # S_EMPTY
    /\ last_call.mi.cycle = 1
    /\ Len(Stored) = 2
    /\ IsBus(Stored[2])
    /\ Stored[2].cycle = 1
    /\ g_mi.cycle = 2

\* the register-transfer calls and the action text each Do_ action leaves
\* pending; the calls that save the pending record; the calls that do not
TransferCalls == {"assign", "update", "copy", "neg", "invert"}

TransferActions(name) ==
    CASE name = "assign" -> { C \o S_ASSIGN \o Decimal(1) \o S_SEMI, PC \o S_ASSIGN \o ADDR \o S_SEMI }
      [] name = "update" ->
            { ADDR \o S_ASSIGN \o ADDR \o S_SPACE \o S_PLUS \o S_SPACE \o Decimal(1) \o S_SEMI,
              A \o S_ASSIGN \o A \o S_SPACE \o S_PLUS \o S_SPACE \o D \o S_SEMI }
      [] name = "copy" -> { D \o S_ASSIGN \o A \o S_SEMI }
      [] name = "neg" -> { A \o S_NEG \o A \o S_SEMI }
      [] name = "invert" -> { A \o S_INV \o A \o S_SEMI }

FieldSetters == {"set_operation", "set_address_mode", "set_which"}

SavingCalls ==
    TransferCalls \cup BusCalls
        \cup {"set_opcode", "set_mode", "flush_mode", "flush_instruction"}

\* when a register-transfer call returns, its action is pending and the call
\* has stored nothing but what was pending before
HeldPending ==
    last_call.name \in TransferCalls =>
        /\ g_mi.action \in TransferActions(last_call.name)
        /\ Stored = Captured(last_call.mi)

\* C16 as claimed: the action left pending by assign, update, copy, neg or
\* invert is not in the Store when the call returns, and the next call that
\* saves appends it.
C16_CapturedAtNextSave ==
    /\ HeldPending
    /\ (last_call.name \in SavingCalls /\ last_call.mi.action # S_EMPTY) =>
          /\ Stored # <<>>
          /\ Stored[1] = last_call.mi

\* C16 as amended: the action left pending by assign, update, copy, neg or
\* invert is not in the Store when the call returns. A field setter leaves
\* it pending. The next call that saves appends it, once, if the pending
\* operation is real at that call, and discards it if the operation is NONE;
\* either way it is pending no longer.
C16_DeferredCapture ==
    /\ HeldPending
    /\ (last_call.name \in FieldSetters /\ last_call.mi.action # S_EMPTY) =>
          /\ Stored = <<>>
          /\ g_mi.action = last_call.mi.action
    /\ (last_call.name \in SavingCalls /\ last_call.mi.action # S_EMPTY) =>
          /\ IF last_call.mi.operation # OP_NONE
             THEN /\ Stored # <<>>
                  /\ Stored[1] = last_call.mi
                  /\ \A i \in 2..Len(Stored) : IsBus(Stored[i])
             ELSE Stored = <<>>
          /\ \/ g_mi.action = S_EMPTY
             \/ last_call.name \in TransferCalls

\* neg was called under a real operation, and the set_opcode after it stored
\* the action neg left pending
C16_Witness ==
    /\ last_call.n = 2
    /\ last_call.name = "set_opcode"
    /\ last_call.mi.operation = OP_CLC
    /\ last_call.mi.action = A \o S_NEG \o A \o S_SEMI
    /\ Stored = <<last_call.mi>>
    /\ g_mi.action = S_EMPTY

\* C17: set_operation, set_address_mode and set_which write their own field
\* of the pending record and nothing else: the Store is as it was, record
\* for record, and every other field of the pending record is unchanged.
C17_FieldSetterFrame ==
    last_call.name \in FieldSetters =>
        /\ g_actions = last_call.acts
        /\ g_mi = CASE last_call.name = "set_operation" ->
                         [last_call.mi EXCEPT !.operation = OP_SEC]
                    [] last_call.name = "set_address_mode" ->
                         [last_call.mi EXCEPT !.address_mode = STK_s]
                    [] last_call.name = "set_which" ->
                         [last_call.mi EXCEPT !.which = 3]

\* set_which called with an action pending under a real operation and a
\* record in the Store
C17_Witness ==
    /\ last_call.name = "set_which"
    /\ last_call.mi.operation = OP_CLC
    /\ last_call.mi.action # S_EMPTY
    /\ last_call.mi.cycle = 1
    /\ g_actions = <<EmitBase>>
    /\ g_mi.which = 3
    /\ g_mi.action = last_call.mi.action

----------------------------------------------------------------------------
(* Claim about the byte order of the composite primitives, checked under    *)
(* SpecComposite                                                            *)

\* the number written in decimal from position k of text a
RECURSIVE NumberAt(_, _, _)
NumberAt(a, k, acc) ==
    IF k <= Len(a) /\ a[k] \in 48..57 THEN NumberAt(a, k + 1, 10 * acc + (a[k] - 48))
    ELSE acc

\* the bit range "[high:low]" of the byte a bus action transfers; the text
\* of a bus action has one "[" and one ":"
HighBit(a) == NumberAt(a, 1 + (CHOOSE k \in 1..Len(a) : a[k] = 91), 0)
LowBit(a) == NumberAt(a, 1 + (CHOOSE k \in 1..Len(a) : a[k] = 58), 0)

\* the bus records the last composite call appended
BusAppended == SelectSeq(Appended, IsBus)

PushComposites == {"push_half_word", "push_word", "push_double_word", "push_quad_word"}

\* C18 as claimed: every composite transfers its bytes least-significant
\* byte first: its i-th bus record transfers bits [8i-1 : 8i-8], the pushes
\* included.
C18_LowByteFirst ==
    (last_composite.name # "none" /\ g_mi.operation # OP_NONE) =>
        \A i \in 1..Len(BusAppended) :
            /\ LowBit(BusAppended[i].action) = 8 * (i - 1)
            /\ HighBit(BusAppended[i].action) = 8 * i - 1

\* C18 as amended: the pop_, load_, read_ and write_ composites transfer
\* their bytes least-significant byte first; the push_ composites transfer
\* them most-significant byte first: the first bus record of a push of N
\* bytes transfers the top byte [8N-1 : 8N-8] and the last transfers [7:0].
C18_ByteOrder ==
    (last_composite.name # "none" /\ g_mi.operation # OP_NONE) =>
        /\ Len(BusAppended) = last_composite.width
        /\ \A i \in 1..Len(BusAppended) :
             LET k == IF last_composite.name \in PushComposites
                      THEN last_composite.width - i ELSE i - 1
             IN /\ LowBit(BusAppended[i].action) = 8 * k
                /\ HighBit(BusAppended[i].action) = 8 * k + 7

\* push_word under a real operation: four bus records, the first with bits
\* [31:24] and the last with bits [7:0]
C18_Witness ==
    /\ last_composite.name = "push_word"
    /\ g_mi.operation = OP_CLC
    /\ Len(BusAppended) = 4
    /\ BusAppended[1].action =
          S_PUSH_PRE \o S_SPACE \o get_write_byte_action(S_TMP_SP, part(PC, 31, 24)) \o S_PUSH_POST
    /\ LowBit(BusAppended[4].action) = 0

\* the fields of a record that only the set_ calls write
Header(mi) ==
    [cpu_mode |-> mi.cpu_mode, opcode |-> mi.opcode, operation |-> mi.operation,
     address_mode |-> mi.address_mode, which |-> mi.which]

\* C19: the Store is append-only during the build. A builder call leaves
\* every record of the Store as it was and where it was, never shortens the
\* Store, and every record it appends is a copy of the pending record: it
\* has the cpu_mode, opcode, operation, address_mode and which the pending
\* record had at the call.
C19_AppendOnly ==
    [][pc = "build" =>
          /\ Len(g_actions') >= Len(g_actions)
          /\ SubSeq(g_actions', 1, Len(g_actions)) = g_actions
          /\ \A i \in (Len(g_actions) + 1)..Len(g_actions') :
                Header(g_actions'[i]) = Header(g_mi)]_vars

\* read_byte called with an action pending and a record in the Store: two
\* records are appended behind the one that was there
C19_Witness ==
    /\ last_call.name = "read_byte"
    /\ last_call.acts = <<EmitBase>>
    /\ Len(g_actions) = 3
    /\ g_actions[1] = EmitBase
    /\ g_actions[2] = last_call.mi
    /\ g_actions[2] # EmitBase

----------------------------------------------------------------------------
(* Claim about which, checked under SpecTable *)

PerBitOperations == {OP_BBR, OP_BBS, OP_RMB, OP_SMB}

\* C20: every record of the Store whose operation is not one of BBR, BBS,
\* RMB, SMB has which = 0: an opcode defined after a per-bit opcode does not
\* inherit its which.
C20_WhichIsZero ==
    \A i \in 1..Len(g_actions) :
        g_actions[i].operation \notin PerBitOperations => g_actions[i].which = 0

----------------------------------------------------------------------------
(* Claim about part, checked under SpecPart *)

HasRange(a) == \E k \in 1..Len(a) : a[k] = 58

\* C21: part called with lowest > highest is rejected: no action text with
\* an inverted bit range [highest:lowest], highest < lowest, becomes the
\* pending action or reaches the Store.
C21_InvertedRangeRejected ==
    \A mi \in {g_mi} \cup Range(g_actions) :
        HasRange(mi.action) => LowBit(mi.action) <= HighBit(mi.action)

----------------------------------------------------------------------------
(* Claims about a table of opcode definitions, checked under                *)
(* SpecDefinitions                                                          *)

\* a record of the Store was stored under this cpu_mode and opcode
Defined(cpu_mode, opcode) ==
    \E i \in 1..Len(g_actions) :
        g_actions[i].cpu_mode = cpu_mode /\ g_actions[i].opcode = opcode

\* the step is a set_opcode of an opcode that has records in the Store, or
\* that the definition in progress is about to store a record for
DuplicateDefinition ==
    /\ pc = "build"
    /\ last_call'.name = "set_opcode"
    /\ last_call'.n = last_call.n + 1
    /\ \/ Defined(g_mi'.cpu_mode, g_mi'.opcode)
       \/ g_mi.opcode = g_mi'.opcode /\ g_mi.operation # OP_NONE /\ g_mi.action # S_EMPTY

\* the first record of every definition in the Store has cycle 0, and the
\* cycle of each further record is that of the record before it or one more
NumberedFromZero(acts, defs) ==
    \A i \in 1..Len(acts) :
        IF i = 1 \/ defs[i - 1] # defs[i]
        THEN acts[i].cycle = 0
        ELSE acts[i].cycle \in {acts[i - 1].cycle, acts[i - 1].cycle + 1}

\* C22: a duplicate opcode is not detected. set_opcode of an opcode already
\* defined under the same cpu_mode raises no error: the build goes on, the
\* records stored before stay in the Store where they were, the pending
\* cycle restarts at 0, and the records of the second definition are
\* appended behind the first, numbered from cycle 0 again.
C22_DuplicateOpcode ==
    [][/\ DuplicateDefinition =>
             /\ pc' = "build"
             /\ SubSeq(g_actions', 1, Len(g_actions)) = g_actions
             /\ g_mi'.cycle = 0
       /\ pc' \in {"build", "sort"} => NumberedFromZero(g_actions', def_of')]_vars

\* two definitions of opcode 0x18 have each left a record with cycle 0:
\* (cpu_mode, opcode, cycle) is not unique in the Store
C22_Witness ==
    /\ pc = "build"
    /\ \E i \in 1..Len(g_actions), j \in 1..Len(g_actions) :
          /\ i < j
          /\ def_of[i] # def_of[j]
          /\ g_actions[i].cpu_mode = g_actions[j].cpu_mode
          /\ g_actions[i].opcode = g_actions[j].opcode
          /\ g_actions[i].cycle = g_actions[j].cycle
          /\ g_actions[i].opcode = 24


\* the pending action a call of SpecDefinitions leaves when it returns
LeftPending(name) ==
    IF name = "clear_flag" THEN C \o S_ASSIGN \o Decimal(0) \o S_SEMI
    ELSE IF name = "set_flag" THEN C \o S_ASSIGN \o Decimal(1) \o S_SEMI
    ELSE S_EMPTY

\* C23: in an opcode definition that never calls set_operation the pending
\* operation is NONE at every call, and no call made then stores a record,
\* however many actions the definition appends: a saving call clears the
\* pending action without storing it, leaving only its own action pending,
\* and the build goes on to the next call or to the sort with no error state.
C23_NoOperationNoRecord ==
    [][(pc = "build" /\ g_mi.operation = OP_NONE) =>
          /\ g_actions' = g_actions
          /\ pc' \in {"build", "sort"}
          /\ last_call'.name \notin {"set_operation", "set_address_mode"} =>
                g_mi'.action = IF pc' = "sort" THEN S_EMPTY ELSE LeftPending(last_call'.name)]_vars

\* a whole table of definitions without set_operation, with actions
\* appended and discarded, has been built and emitted: nothing is printed
C23_Witness ==
    /\ pc = "done"
    /\ out = <<>>
    /\ last_call.name = "read_byte"
    /\ last_call.mi.operation = OP_NONE
    /\ last_call.mi.action = C \o S_ASSIGN \o Decimal(0) \o S_SEMI
    /\ last_call.n >= 6

----------------------------------------------------------------------------
(* Claim about the cpu_mode, checked under SpecEmit *)

\* the Stores that differ from s only in the cpu_mode of their records
Relabelled(s) ==
    { [i \in 1..Len(s) |-> [s[i] EXCEPT !.cpu_mode = f[i]]] :
        f \in [1..Len(s) -> {MODE_6502, MODE_65832}] }

\* the output without its comments: the "// also:" lines are dropped, and
\* the "// %s [%02hX]" behind a predicate is blanked
Logic(o) ==
    LET code == SelectSeq(o, LAMBDA l : l.kind # "also")
    IN [i \in 1..Len(code) |-> [code[i] EXCEPT !.cpu_mode = <<>>, !.opcode = 0]]

\* C24: the cpu_mode does not influence the generated logic. Sorting and
\* emitting a Store that differs from the one built only in the cpu_mode of
\* its records prints the same cycle blocks, addressing-mode blocks, guards,
\* predicates and action bodies in the same order; only comments differ.
C24_ModeIndependence ==
    pc = "done" =>
        \A r \in Relabelled(unsorted) : Logic(main_loop(sort(r), 0, <<>>)) = Logic(out)

\* a Store with both variants under one operation and one action, and a
\* relabelling of it whose output differs from the one printed
C24_Witness ==
    /\ pc = "done"
    /\ \E i \in 1..Len(unsorted), j \in 1..Len(unsorted) :
          /\ unsorted[i].cpu_mode = MODE_6502
          /\ unsorted[j].cpu_mode = MODE_65832
          /\ unsorted[i].operation = unsorted[j].operation
          /\ unsorted[i].action = unsorted[j].action
    /\ \E l \in Range(out) : l.kind = "also"
    /\ \E r \in Relabelled(unsorted) : main_loop(sort(r), 0, <<>>) # out

----------------------------------------------------------------------------
(* Claims about the action-builder calls, checked under SpecActions *)

ShiftCalls == {"lsl", "lsr", "asl", "asr"}

CompositeCalls ==
    { "push_half_word", "push_word", "push_double_word", "push_quad_word",
      "pop_half_word", "pop_word", "pop_double_word", "pop_quad_word",
      "load_half_word", "load_word", "load_double_word", "load_quad_word",
      "read_half_word", "read_word", "read_double_word", "read_quad_word",
      "write_half_word", "write_word", "write_double_word", "write_quad_word" }

ActionBuilderCalls == TransferCalls \cup ShiftCalls \cup BusCalls \cup CompositeCalls

\* the step is a call of one of the names
Calls(names) == last_call'.n = last_call.n + 1 /\ last_call'.name \in names

\* C25: every action-builder call (assign, update, copy, neg, invert, the
\* shift helpers, the single-byte bus primitives and the composites) leaves
\* the cpu_mode, opcode, operation, address_mode and which of the pending
\* record as they were, so every record the call stores carries them.
C25_ActionBuilderFrame ==
    [][Calls(ActionBuilderCalls) =>
          /\ Header(g_mi') = Header(g_mi)
          /\ \A i \in (Len(g_actions) + 1)..Len(g_actions') :
                Header(g_actions'[i]) = Header(g_mi)]_vars

\* asr_quad_word and push_double_word under a real operation: the records
\* they stored and the pending record have the header of before the call
C25_Witness ==
    /\ last_call.n = 1
    /\ last_call.name \in {"asr", "push_double_word"}
    /\ last_call.mi.operation = OP_CLC
    /\ Len(g_actions) > Len(last_call.acts) + 1
    /\ Header(g_mi) = Header(last_call.mi)
    /\ g_mi.which = 3


\* the bus transactions a call makes: each is one flush_cycle
BusTransactions(name) ==
    IF name \in BusCalls THEN 1
    ELSE IF name \in {"push_half_word", "pop_half_word", "load_half_word",
                      "read_half_word", "write_half_word"} THEN 2
    ELSE IF name \in {"push_word", "pop_word", "load_word", "read_word", "write_word"} THEN 4
    ELSE IF name \in {"push_double_word", "pop_double_word", "load_double_word",
                      "read_double_word", "write_double_word"} THEN 8
    ELSE IF name \in CompositeCalls THEN 16
    ELSE 0

\* C26: the pending cycle is changed only by flush_cycle, by one for each
\* bus transaction, and by flush_instruction, which resets it to 0. assign,
\* update, copy, neg, invert and the shift helpers never change it, so the
\* action of a register transfer is stored with the cycle of the bus
\* transaction that follows it in the opcode definition.
C26_CycleFrame ==
    [][/\ Calls(ActionBuilderCalls) =>
             g_mi'.cycle = U8(g_mi.cycle + BusTransactions(last_call'.name))
       /\ Calls({"set_opcode", "flush_instruction"}) => g_mi'.cycle = 0
       /\ Calls(FieldSetters) => g_mi'.cycle = g_mi.cycle
       /\ (/\ Calls(BusCalls)
           /\ last_call.name \in TransferCalls \cup ShiftCalls
           /\ g_mi.operation # OP_NONE) =>
             /\ Len(g_actions') = Len(g_actions) + 2
             /\ g_actions'[Len(g_actions) + 1].action = g_mi.action
             /\ g_actions'[Len(g_actions) + 1].cycle = g_actions'[Len(g_actions) + 2].cycle
             /\ g_actions'[Len(g_actions) + 2].action = BusAction(last_call'.name)]_vars

\* lsr followed by write_byte at pending cycle 1: the rewrite of the shift
\* and the bus transaction are both stored with cycle 1, and the pending
\* cycle is 2
C26_Witness ==
    /\ last_call.n = 2
    /\ last_call.name = "write_byte"
    /\ last_call.mi.cycle = 1
    /\ last_call.mi.action = A \o S_ASSIGN \o combine2(bit(0), part(A, 7, 1)) \o S_SEMI
    /\ g_mi.cycle = 2
    /\ Len(g_actions) >= 3
    /\ g_actions[Len(g_actions)].cycle = 1
    /\ g_actions[Len(g_actions) - 1].cycle = 1
    /\ g_actions[Len(g_actions) - 1].action = last_call.mi.action

----------------------------------------------------------------------------
(* Claim about the order of flush and relabel, checked under SpecCalls *)

\* C27: flush before relabel. The record the flush inside set_opcode(b)
\* stores is the pending record as it was, with the previous opcode, and the
\* record the flush inside set_mode(v) stores has the previous cpu_mode; the
\* new opcode or cpu_mode is in the pending record only, after the save.
C27_FlushBeforeRelabel ==
    [][/\ Calls({"set_opcode"}) =>
             /\ g_actions' = g_actions \o Captured(g_mi)
             /\ g_mi'.opcode = 56
             /\ g_mi'.cpu_mode = g_mi.cpu_mode
       /\ Calls({"set_mode"}) =>
             /\ g_actions' = g_actions \o Captured(g_mi)
             /\ g_mi'.cpu_mode = MODE_65832
             /\ g_mi'.opcode = g_mi.opcode]_vars

\* set_opcode(0x38) called with an action of opcode 0x18 pending under a
\* real operation: the record stored has opcode 0x18, the pending one 0x38
C27_Witness ==
    /\ last_call.name = "set_opcode"
    /\ last_call.mi.operation = OP_CLC
    /\ last_call.mi.action # S_EMPTY
    /\ g_actions = last_call.acts \o <<last_call.mi>>
    /\ g_actions[Len(g_actions)].opcode = 24
    /\ g_mi.opcode = 56

----------------------------------------------------------------------------
(* Claim about the end of the build, checked under SpecDefinitions *)

\* the actions recorded so far: the Store, and the pending action if a save
\* would store it
Recorded(mi, acts) == acts \o Captured(mi)

\* C28: the build completes before emission. No call of the build loses a
\* recorded action, and when main starts sorting the pending record holds
\* no action and no operation: every action appended under a real
\* operation, in either variant and up to the last opcode of the last
\* variant, is in the Store that is sorted and emitted.
C28_BuildCompletes ==
    [][/\ pc = "build" => HasPrefix(Recorded(g_mi', g_actions'), Recorded(g_mi, g_actions))
       /\ pc' = "sort" =>
             /\ g_mi'.action = S_EMPTY
             /\ g_mi'.operation = OP_NONE
             /\ g_actions' = Recorded(g_mi, g_actions)]_vars

\* main is about to sort: the action of the last opcode of the second
\* variant, pending at the last call of the table, is the last record of
\* the Store, behind a record of the first variant
C28_Witness ==
    /\ pc = "sort"
    /\ last_call.name = "set_flag"
    /\ last_call.mi.cpu_mode = MODE_65832
    /\ last_call.mi.operation # OP_NONE
    /\ Len(g_actions) >= 2
    /\ g_actions[1].cpu_mode = MODE_6502
    /\ g_actions[Len(g_actions)].cpu_mode = MODE_65832
    /\ g_actions[Len(g_actions)].action = C \o S_ASSIGN \o Decimal(1) \o S_SEMI
    /\ g_mi.action = S_EMPTY


\* the two actions of a shift helper of the register A
CarryCapture(name, bits) ==
    C \o S_ASSIGN \o bit_of(A, IF name \in {"lsl", "asl"} THEN bits - 1 ELSE 0) \o S_SEMI

RegisterRewrite(name, bits) ==
    A \o S_ASSIGN \o
        (CASE name \in {"lsl", "asl"} -> combine2(part(A, bits - 2, 0), Decimal(0))
           [] name = "lsr" -> combine2(Decimal(0), part(A, bits - 1, 1))
           [] name = "asr" -> combine2(Decimal(bits - 1), part(A, bits - 1, 1)))
        \o S_SEMI

\* C29: a shift helper called under a real operation produces two records:
\* the carry capture C <= reg[bit], which the call appends to the Store, and
\* then the register rewrite, which the call leaves pending and the next
\* save appends right behind the carry capture. Both have the pending cycle
\* of the call, which the call leaves unchanged.
C29_ShiftTwoRecords ==
    [][/\ (Calls(ShiftCalls) /\ g_mi.operation # OP_NONE) =>
             \E bits \in Widths :
                /\ g_actions' = g_actions \o Captured(g_mi)
                                   \o <<[g_mi EXCEPT !.action = CarryCapture(last_call'.name, bits)]>>
                /\ g_mi' = [g_mi EXCEPT !.action = RegisterRewrite(last_call'.name, bits)]
       /\ (/\ last_call.name \in ShiftCalls
           /\ last_call.mi.operation # OP_NONE
           /\ Calls(SavingCalls)) =>
             /\ HasPrefix(g_actions', g_actions \o <<g_mi>>)
             /\ g_actions[Len(g_actions)].cycle = g_mi.cycle
             /\ g_mi.cycle = last_call.mi.cycle]_vars

\* asr_quad_word called with nothing pending, then flush_instruction: the
\* Store has gained the carry capture and the rewrite, in this order
C29_Witness ==
    /\ last_call.n = 2
    /\ last_call.name = "flush_instruction"
    /\ Len(g_actions) = 2
    /\ g_actions[1].action = C \o S_ASSIGN \o bit_of(A, 0) \o S_SEMI
    /\ g_actions[2].action = A \o S_ASSIGN \o combine2(Decimal(127), part(A, 127, 1)) \o S_SEMI
    /\ g_actions[1].cycle = 2
    /\ g_actions[2].cycle = 2
    /\ g_actions[2] = last_call.mi

----------------------------------------------------------------------------
(* Claim about the auto-increment bus primitives, checked under SpecCalls *)

\* text a has the text b in it
Contains(a, b) ==
    \E k \in 0..(Len(a) - Len(b)) : SubSeq(a, k + 1, k + Len(b)) = b

\* ADDR <= ADDR + 1, the action of inc(ADDR)
IncrementText == ADDR \o S_ASSIGN \o ADDR \o S_SPACE \o S_PLUS \o S_SPACE \o Decimal(1) \o S_SEMI

\* C30: the auto-increment bus primitives keep their increment. After
\* read_byte_with_inc or write_byte_with_inc under a real operation, a
\* record the call appended to the Store has the address increment
\* address <= address + 1 in its action.
C30_IncrementKept ==
    (/\ last_call.name \in {"read_byte_with_inc", "write_byte_with_inc"}
     /\ last_call.mi.operation # OP_NONE) =>
        \E i \in (Len(last_call.acts) + 1)..Len(g_actions) :
            Contains(g_actions[i].action, IncrementText)

----------------------------------------------------------------------------
(* Claim about termination of the emission, checked under SpecEmitFair *)

\* the index returned for argument i is beyond i and within the Store
Advances(acts, i, r) == i < r.index /\ r.index <= Len(acts)

\* C31: emission terminates. Called with any index below the Store size,
\* gen_code_for_action, gen_code_for_address_mode and gen_code_for_cycle
\* each return an index greater than their argument and at most the Store
\* size; main has opened at most one guard per record it has passed, and
\* main returns.
C31_EmissionTerminates ==
    /\ [](pc = "emit" =>
            /\ \A i \in 0..(Len(g_actions) - 1) :
                  /\ Advances(g_actions, i, gen_code_for_action(g_actions, i))
                  /\ Advances(g_actions, i, gen_code_for_address_mode(g_actions, i))
                  /\ Advances(g_actions, i, gen_code_for_cycle(g_actions, i))
            /\ index <= Len(g_actions)
            /\ Cardinality(GuardStarts(out)) <= index)
    /\ <>(pc = "done")

\* main has returned after passing three records in three guards
C31_Witness ==
    /\ pc = "done"
    /\ index = 3
    /\ Len(g_actions) = 3
    /\ Cardinality(GuardStarts(out)) = 3
    /\ Cardinality(Positions(out, {"if_cycle"})) = 2


\* C32: no emitted guard is empty. The line after "if (" is a predicate,
\* never an annotation, and it has no "|| " prefix; every later predicate of
\* the same guard has the prefix.
C32_GuardNotEmpty ==
    pc \in {"emit", "done"} =>
        \A g \in GuardStarts(out) :
            /\ out[g + 1].kind = "predicate"
            /\ ~out[g + 1].join
            /\ g + 1 \in GuardPredicates(out, g)
            /\ \A j \in GuardPredicates(out, g) : j > g + 1 => out[j].join

\* a guard of two predicates with an annotation between them
C32_Witness ==
    /\ pc = "done"
    /\ \E g \in GuardStarts(out) :
          /\ Cardinality(GuardPredicates(out, g)) = 2
          /\ out[g + 2].kind = "also"
          /\ out[g + 3].kind = "predicate"
          /\ out[g + 3].join


\* C33: a deferred action is stored with the pending fields as they are at
\* the next save. If set_operation, set_address_mode or set_which was called
\* with an action pending, the next saving call appends that action in a
\* record that is the pending record of the moment of the save, so with the
\* operation, address_mode or which just set; this includes an action that
\* was created while the operation was NONE and is saved after
\* set_operation. If the operation is still NONE at the save, nothing is
\* appended.
C33_FieldsAsAtSave ==
    [][(/\ last_call.name \in FieldSetters
        /\ last_call.mi.action # S_EMPTY
        /\ Calls(SavingCalls)) =>
          IF g_mi.operation # OP_NONE
          THEN /\ Len(g_actions') > Len(g_actions)
               /\ g_actions'[Len(g_actions) + 1] = g_mi
               /\ g_actions'[Len(g_actions) + 1].action = last_call.mi.action
               /\ last_call.name = "set_operation" =>
                     g_actions'[Len(g_actions) + 1].operation = OP_SEC
               /\ last_call.name = "set_address_mode" =>
                     g_actions'[Len(g_actions) + 1].address_mode = STK_s
               /\ last_call.name = "set_which" =>
                     g_actions'[Len(g_actions) + 1].which = 3
          ELSE g_actions' = g_actions]_vars

\* an action was pending, set_operation(OP_SEC) was called, and the
\* flush_instruction after it stored the action under OP_SEC
C33_Witness ==
    /\ last_call.n = 2
    /\ last_call.name = "flush_instruction"
    /\ last_call.mi.operation = OP_SEC
    /\ last_call.mi.action = C \o S_ASSIGN \o Decimal(0) \o S_SEMI
    /\ Stored = <<last_call.mi>>
    /\ g_mi.action = S_EMPTY


----------------------------------------------------------------------------
(* Claims about opcode definitions, checked under SpecDefinitions *)

Contiguous(acts, defs) ==
    /\ Len(defs) = Len(acts)
    /\ \A p \in 1..Len(acts) : \A q \in (p + 1)..Len(acts) :
          /\ defs[p] <= defs[q]
          /\ defs[p] = defs[q] =>
                /\ acts[p].cpu_mode = acts[q].cpu_mode
                /\ acts[p].opcode = acts[q].opcode
                /\ acts[p].cycle <= acts[q].cycle

\* C35: in the Store before sorting, the records of one opcode definition
\* are contiguous, in the order they were appended and with non-decreasing
\* cycle, and the records of different definitions are never interleaved:
\* every call of the build leaves the records of before where they were and
\* appends behind them, to the definition in progress.
C35_DefinitionsContiguous ==
    [][pc = "build" =>
          /\ HasPrefix(g_actions', g_actions)
          /\ HasPrefix(def_of', def_of)
          /\ \A i \in (Len(def_of) + 1)..Len(def_of') : def_of'[i] = cur_def
          /\ Contiguous(g_actions', def_of')]_vars

\* two records of one definition at cycles 0 and 1, then a record of the
\* next definition at cycle 0
C35_Witness ==
    /\ pc = "build"
    /\ Len(g_actions) = 3
    /\ def_of[1] = def_of[2]
    /\ def_of[2] < def_of[3]
    /\ g_actions[1].cycle = 0
    /\ g_actions[2].cycle = 1
    /\ g_actions[3].cycle = 0
    /\ g_actions[3].opcode # g_actions[2].opcode


----------------------------------------------------------------------------
(* Claim about bus primitives without an operation, checked under Spec *)

\* the definition in progress has no record in the Store
NothingStored == \A i \in 1..Len(def_of) : def_of[i] # cur_def

\* C36: a single-byte bus primitive called while the operation is NONE
\* appends nothing and still increments the pending cycle. So when
\* set_operation is only called after such a primitive, the first record the
\* definition stores has cycle >= 1, and the definition has no record of
\* cycle 0.
C36_CycleWithoutOperation ==
    [][pc = "build" =>
          /\ (Call_read_byte /\ g_mi.operation = OP_NONE) =>
                /\ g_actions' = g_actions
                /\ g_mi'.cycle = g_mi.cycle + 1
          /\ (NothingStored /\ g_mi.cycle >= 1) =>
                \A i \in (Len(g_actions) + 1)..Len(g_actions') :
                    /\ def_of'[i] = cur_def
                    /\ g_actions'[i].cycle >= g_mi.cycle]_vars

\* read_byte was called before set_operation: the only record of the
\* definition has cycle 1
C36_Witness ==
    /\ pc = "build"
    /\ Len(g_actions) = 1
    /\ g_actions[1].cycle = 1
    /\ IsBus(g_actions[1])
    /\ g_mi.cycle = 2


----------------------------------------------------------------------------
(* Claim about repeated saves, checked under SpecCalls *)

\* C37: save_instruction and flush_instruction are idempotent: called twice
\* in a row they leave the Store and the pending record as one call does.
\* So the save_instruction at the start of a composite, whose first callee
\* (assign, pop_byte, load_byte or read_byte_with_inc) saves again, changes
\* nothing that callee would not.
C37_SaveIdempotent ==
    pc = "build" =>
        /\ save_instruction(save_instruction(Builder)) = save_instruction(Builder)
        /\ flush_instruction(flush_instruction(Builder)) = flush_instruction(Builder)
        /\ last_call.name = "flush_instruction" => flush_instruction(Builder) = Builder
        /\ assign(save_instruction(Builder), part(WQW, 7, 0), part(A, 7, 0))
             = assign(Builder, part(WQW, 7, 0), part(A, 7, 0))
        /\ pop_byte(save_instruction(Builder), part(RQW, 7, 0))
             = pop_byte(Builder, part(RQW, 7, 0))
        /\ load_byte(save_instruction(Builder), part(RQW, 7, 0))
             = load_byte(Builder, part(RQW, 7, 0))
        /\ read_byte_with_inc(save_instruction(Builder), ADDR, part(RQW, 7, 0))
             = read_byte_with_inc(Builder, ADDR, part(RQW, 7, 0))

\* flush_instruction was called twice: the first call stored the pending
\* action behind the record of the Store, the second changed nothing
C37_Witness ==
    /\ last_call.n = 2
    /\ last_call.name = "flush_instruction"
    /\ last_call.mi = g_mi
    /\ last_call.acts = g_actions
    /\ g_mi.opcode = 24
    /\ g_mi.operation = OP_NONE
    /\ Len(g_actions) = 2
    /\ g_actions[2].action = C \o S_ASSIGN \o Decimal(0) \o S_SEMI


----------------------------------------------------------------------------
(* Claim about the buffer of bit, checked under SpecActions *)

Shifted(name, s, reg, bits) ==
    CASE name = "lsl" -> lsl(s, reg, bits)
      [] name = "lsr" -> lsr(s, reg, bits)
      [] name = "asl" -> asl(s, reg, bits)
      [] name = "asr" -> asr(s, reg, bits)

\* the last call was the shift helper of this name and width
ShiftCalled(name, bits) ==
    /\ last_call.name = name
    /\ Builder = Shifted(name, [mi |-> last_call.mi, acts |-> last_call.acts], A, bits)

\* C38: every value passed to bit() fits its buffer of two bytes, one digit
\* and the terminator (b <= 9): in no call of a shift helper does sprintf
\* write more bytes than val has. This must hold for the lsl_, lsr_ and asl_
\* helpers (b = 0), for asr_byte (b = 7) and for asr_half_word to
\* asr_quad_word (b = 15, 31, 63, 127).
C38_BitFitsBuffer ==
    \A name \in ShiftCalls : \A bits \in Widths :
        ShiftCalled(name, bits) =>
            /\ bit_argument(name, bits) <= 9
            /\ Len(bit_bytes(bit_argument(name, bits))) <= BitBufferSize

====
